---- MODULE Spec2Model ----
(***************************************************************************)
(* The adapter layer of the CodeAlive installer (src/src/clients.ts): the  *)
(* JSON-config adapters editing a tolerant-JSON config file and the        *)
(* CLI-invocation adapters driving an external binary.                     *)
(*                                                                         *)
(* One behaviour exercises one adapter instance (client) in one            *)
(* environment: the adapters share no file and no state, so the adapter    *)
(* under exercise is fixed by Init and every adapter is covered.           *)
(***************************************************************************)
EXTENDS Integers, Sequences, FiniteSets, TLC

VARIABLES
  client,    \* name of the adapter instance under exercise
  platform,  \* process.platform
  baseUrl,   \* process.env.CODEALIVE_BASE_URL (Unset when not defined)
  env,       \* process.env.APPDATA and process.env.XDG_CONFIG_HOME
  fs,        \* the config file of the adapter and its two enclosing directories
  cli,       \* the external agent binary, its registry, the instance's cachedBinary
  pc,        \* "idle", or "writing" while fs.promises.writeFile is in flight
  pending,   \* the operation and data of the write in flight
  last,      \* the most recently completed adapter operation and its result
  pre,       \* fs as it was when that operation started
  preCli,    \* cli as it was when that operation started
  calls,     \* external processes invoked by that operation, in order
  resolved,  \* the first non-null binary path the instance resolved ("" if none)
  fn,              \* the registry or orchestrator function that is running
  world,           \* per adapter of getAllClients(): its config file, binary, cache
  ci,              \* options.ci of installMcp
  ipc,             \* position in the running function
  idx,             \* index of the current loop
  supportedNames,  \* installMcp: names whose isClientSupported() was true
  selectedClients, \* installMcp: the clients to install to, in order
  installed,       \* installMcp: selected clients whose isServerInstalled() was true
  succeeded,       \* installMcp: names whose addServer returned success
  failed,          \* installMcp: names and errors of the others
  supported,       \* getSupportedClients: the list being built
  added,           \* the addServer calls made so far, [name, success, key], in order
  ret,             \* the value returned
  wpc,          \* runWizard: position ("off" when the wizard is not running)
  providedKey,  \* options.apiKey (Unset when the flag is not given)
  keyring,      \* CODEALIVE_API_KEY and the OS credential store
  actions,      \* runWizard: what the user chose to install
  obtainedKey,  \* runWizard: its variable apiKey (Unset while undefined)
  auth,         \* the frame of getApiKey / getApiKeyCi / promptForApiKey
  verifications,  \* the verifyKey calls of the authentication, [source, key, valid]
  steps,        \* the calls runWizard made so far, in order
  spawned,      \* child processes of the latest plugin or skill step, in order
  flags,        \* installedPlugin, installedSkill, installedMcp
  exitCode,     \* argument of process.exit, -1 while the process runs
  prompts       \* the prompts shown so far and their answers, in order

avars ==
  <<client, platform, baseUrl, env, fs, cli, pc, pending, last, pre, preCli, calls,
    resolved>>

ivars ==
  <<fn, world, ci, ipc, idx, supportedNames, selectedClients, installed, succeeded,
    failed, supported, added, ret>>

wvars ==
  <<wpc, providedKey, keyring, actions, obtainedKey, auth, verifications, steps, spawned,
    flags, exitCode, prompts>>

\* the wizard's variables a prompt of installMcp leaves alone
wrest ==
  <<wpc, providedKey, keyring, actions, obtainedKey, auth, verifications, steps, spawned,
    flags>>

vars == <<avars, ivars, wvars>>

----------------------------------------------------------------------------
(* Program constants *)

MCP_SERVER_NAME == "codealive"
MCP_COMMAND == "uvx"
MCP_ARGS == <<"codealive-mcp">>

\* process.env.X of a variable that is not defined
Unset == "<undefined>"

\* JavaScript truthiness of a string | undefined
Truthy(s) == s # Unset /\ s # ""

----------------------------------------------------------------------------
(* Bounds of the model *)

\* most entries under serverPropertyKey in an initial config document
MaxEntries == 2

Keys == {"key-A", "key-B"}
BaseUrls == {Unset, "", "https://self-hosted.example.com"}
Platforms == {"darwin", "linux", "win32", "freebsd"}
AppDatas == {Unset, "C:/Users/u/AppData/Roaming"}
XdgConfigHomes == {Unset, "/xdg"}

\* most agents present on a sparsely populated machine, most agents the user
\* ticks in the prompt
MaxPresent == 1
MaxSelected == 2

----------------------------------------------------------------------------
(* Registry *)

getAllClients ==
  <<"Claude Code", "Cursor", "VS Code", "Windsurf", "Cline", "Roo Code",
    "Zed", "OpenCode", "Codex", "Antigravity">>

AllClients == {getAllClients[i] : i \in 1..Len(getAllClients)}
CliClients == {"Claude Code", "Codex"}
JsonClients == AllClients \ CliClients

getServerPropertyName(c) ==
  CASE c = "VS Code" -> "servers"
    [] c = "Zed" -> "context_servers"
    [] c = "OpenCode" -> "mcp"
    [] OTHER -> "mcpServers"

----------------------------------------------------------------------------
(* Config paths.  A path is the sequence of its segments; the home         *)
(* directory os.homedir() is the single segment Home.                      *)

Home == "~"

\* path.join: empty arguments contribute nothing
join(segments) == SelectSeq(segments, LAMBDA s : s # "")

\* path.dirname
dirname(p) == IF Len(p) > 1 THEN SubSeq(p, 1, Len(p) - 1) ELSE <<".">>

\* process.env.X || ''
OrEmpty(v) == IF Truthy(v) THEN v ELSE ""

ClineSuffix ==
  <<"Code", "User", "globalStorage", "saoudrizwan.claude-dev", "settings",
    "cline_mcp_settings.json">>

RooSuffix ==
  <<"Code", "User", "globalStorage", "rooveterinaryinc.roo-cline", "settings",
    "mcp_settings.json">>

getConfigPath(c, plat, e) ==
  CASE c = "Cursor" ->
         IF plat = "win32" THEN join(<<OrEmpty(e.APPDATA), "Cursor", "mcp.json">>)
         ELSE IF plat = "linux" THEN join(<<Home, ".config", "cursor", "mcp.json">>)
         ELSE join(<<Home, ".cursor", "mcp.json">>)
    [] c = "VS Code" ->
         IF plat = "darwin"
         THEN join(<<Home, "Library", "Application Support", "Code", "User", "mcp.json">>)
         ELSE IF plat = "win32"
         THEN join(<<OrEmpty(e.APPDATA), "Code", "User", "mcp.json">>)
         ELSE join(<<Home, ".config", "Code", "User", "mcp.json">>)
    [] c = "Windsurf" ->
         IF plat = "darwin"
         THEN join(<<Home, ".codeium", "windsurf", "mcp_config.json">>)
         ELSE IF plat = "win32"
         THEN join(<<OrEmpty(e.APPDATA), "Codeium", "windsurf", "mcp_config.json">>)
         ELSE join(<<Home, ".config", "windsurf", "mcp.json">>)
    [] c \in {"Cline", "Roo Code"} ->
         LET suffix == IF c = "Cline" THEN ClineSuffix ELSE RooSuffix
         IN  IF plat = "darwin"
             THEN join(<<Home, "Library", "Application Support">> \o suffix)
             ELSE IF plat = "win32" THEN join(<<OrEmpty(e.APPDATA)>> \o suffix)
             ELSE join(<<Home, ".config">> \o suffix)
    [] c = "Zed" ->
         IF Truthy(e.XDG_CONFIG_HOME)
         THEN join(<<e.XDG_CONFIG_HOME, "zed", "settings.json">>)
         ELSE join(<<Home, ".config", "zed", "settings.json">>)
    [] c = "OpenCode" ->
         IF plat = "win32"
         THEN join(<<OrEmpty(e.APPDATA), "opencode", "opencode.json">>)
         ELSE join(<<Home, ".config", "opencode", "opencode.json">>)
    [] OTHER -> join(<<Home, ".gemini", "antigravity", "mcp_config.json">>)

----------------------------------------------------------------------------
(* Server entries.  An entry is [fields, envKey, env]: fields is the set of *)
(* <<name, JSON type, value tokens>> of its non-environment members, envKey *)
(* the name of its environment member ("" when it has none) and env the    *)
(* set of <<variable, value>> of that member.                              *)

buildEnv(apiKey, url) ==
  {<<"CODEALIVE_API_KEY", apiKey>>}
    \cup (IF Truthy(url) THEN {<<"CODEALIVE_BASE_URL", url>>} ELSE {})

BaseFields ==
  {<<"command", "string", <<MCP_COMMAND>>>>, <<"args", "array", MCP_ARGS>>}

getServerConfig(c, apiKey, url) ==
  CASE c = "VS Code" ->
         [fields |-> BaseFields \cup {<<"type", "string", <<"stdio">>>>},
          envKey |-> "env", env |-> buildEnv(apiKey, url)]
    [] c \in {"Cline", "Roo Code"} ->
         [fields |-> BaseFields \cup {<<"disabled", "boolean", <<"false">>>>},
          envKey |-> "env", env |-> buildEnv(apiKey, url)]
    [] c = "Zed" ->
         [fields |-> BaseFields \cup {<<"source", "string", <<"custom">>>>},
          envKey |-> "env", env |-> buildEnv(apiKey, url)]
    [] c = "OpenCode" ->
         [fields |-> {<<"type", "string", <<"local">>>>,
                      <<"command", "array", <<MCP_COMMAND>> \o MCP_ARGS>>,
                      <<"enabled", "boolean", <<"true">>>>},
          envKey |-> "environment", env |-> buildEnv(apiKey, url)]
    [] OTHER ->
         [fields |-> BaseFields, envKey |-> "env", env |-> buildEnv(apiKey, url)]

\* the value `undefined` handed to jsonc.modify by removeServer
Undefined == [fields |-> {}, envKey |-> Unset, env |-> {}]

----------------------------------------------------------------------------
(* Config documents.  The text of a config file is                         *)
(*   [root, props, errs]                                                   *)
(* root:  JSON type of the root value the tolerant parser recovers, "none" *)
(*        when the text holds no value (empty, blank, no JSON at all)      *)
(* props: the root object's properties in text order, <<key, value>>, with *)
(*        value = [type, lit, entries]; entries are the properties of an   *)
(*        object value in text order, <<name, entry>>                      *)
(* errs:  the text has syntax errors (a missing brace, trailing garbage)   *)
(* Property names are distinct within one object.                          *)

EmptyText == [root |-> "none", props |-> <<>>, errs |-> FALSE]

ObjectValue(entries) == [type |-> "object", lit |-> "", entries |-> entries]
PlainValue(t, lit) == [type |-> t, lit |-> lit, entries |-> <<>>]

\* index of the first property named k in a property sequence, 0 if none
IndexOf(seq, k) ==
  IF \E i \in 1..Len(seq) : seq[i][1] = k
  THEN CHOOSE i \in 1..Len(seq) :
         seq[i][1] = k /\ \A j \in 1..(i - 1) : seq[j][1] # k
  ELSE 0

\* jsonc.parse: the JavaScript value of a text.  Fault tolerant: syntax
\* errors are dropped and the recovered value is returned; a text without a
\* value gives undefined.  Objects become unordered key -> value maps.
ParsedValue(v) ==
  [type |-> v.type, lit |-> v.lit,
   members |-> {v.entries[i] : i \in 1..Len(v.entries)}]

parse(text) ==
  [type |-> IF text.root = "none" THEN "undefined" ELSE text.root,
   members |-> {<<text.props[i][1], ParsedValue(text.props[i][2])>> :
                  i \in 1..Len(text.props)}]

\* JavaScript `k in obj` for an object or array value
HasMember(members, k) == \E m \in members : m[1] = k
MemberOf(members, k) == (CHOOSE m \in members : m[1] = k)[2]

----------------------------------------------------------------------------
(* jsonc.modify(text, [prop, MCP_SERVER_NAME], value, options) and          *)
(* jsonc.applyEdits(text, edits).  modify walks the path from its last      *)
(* segment: the parent is the node at [prop]; when that node is missing and *)
(* a value is being set, the value is wrapped as {name: value} and the      *)
(* parent becomes the root.  A missing parent on a delete, and a parent     *)
(* that is no object, throw.                                                *)

NoEdit == [kind |-> "none", value |-> Undefined]

ModifyOk(kind, value) ==
  [threw |-> FALSE, error |-> "", edit |-> [kind |-> kind, value |-> value]]

ModifyThrow(msg) == [threw |-> TRUE, error |-> msg, edit |-> NoEdit]

modify(text, prop, value) ==
  LET isDelete == value = Undefined
      rootIsObject == text.root = "object"
      ip == IF rootIsObject THEN IndexOf(text.props, prop) ELSE 0
  IN  IF ip = 0
      THEN \* no node at [prop]
           IF isDelete THEN ModifyThrow("Can not delete in empty document")
           ELSE IF text.root = "none" THEN ModifyOk("replaceRoot", value)
           ELSE IF rootIsObject THEN ModifyOk("insertProp", value)
           ELSE ModifyThrow("Can not add index to parent of type <type>")
      ELSE LET parent == text.props[ip][2]
           IN  IF parent.type # "object"
               THEN ModifyThrow("Can not add index to parent of type <type>")
               ELSE IF IndexOf(parent.entries, MCP_SERVER_NAME) # 0
                    THEN IF isDelete THEN ModifyOk("removeEntry", value)
                         ELSE ModifyOk("setEntry", value)
                    ELSE IF isDelete THEN ModifyOk("none", value)
                         ELSE ModifyOk("insertEntry", value)

Without(seq, i) == SubSeq(seq, 1, i - 1) \o SubSeq(seq, i + 1, Len(seq))

\* applyEdits as a parse-mutate-reserialize that rebuilds the server object
\* from the new entry alone when it sets the entry
applyEditsRebuild(text, prop, edit) ==
  LET ip == IndexOf(text.props, prop)
      entries == text.props[ip][2].entries
      ie == IndexOf(entries, MCP_SERVER_NAME)
      fresh == <<prop, ObjectValue(<< <<MCP_SERVER_NAME, edit.value>> >>)>>
      WithEntries(es) == [text EXCEPT !.props[ip][2].entries = es]
  IN  CASE edit.kind = "none" -> text
        [] edit.kind = "replaceRoot" ->
             [root |-> "object", props |-> <<fresh>>, errs |-> text.errs]
        [] edit.kind = "insertProp" ->
             [text EXCEPT !.props = Append(text.props, fresh)]
        [] edit.kind \in {"insertEntry", "setEntry"} ->
             WithEntries(<< <<MCP_SERVER_NAME, edit.value>> >>)
        [] edit.kind = "removeEntry" ->
             WithEntries(Without(entries, ie))

\* applyEdits with a removal range that runs to the end of the server object
applyEditsCutTail(text, prop, edit) ==
  LET ip == IndexOf(text.props, prop)
      entries == text.props[ip][2].entries
      ie == IndexOf(entries, MCP_SERVER_NAME)
      fresh == <<prop, ObjectValue(<< <<MCP_SERVER_NAME, edit.value>> >>)>>
      WithEntries(es) == [text EXCEPT !.props[ip][2].entries = es]
  IN  CASE edit.kind = "none" -> text
        [] edit.kind = "replaceRoot" ->
             [root |-> "object", props |-> <<fresh>>, errs |-> text.errs]
        [] edit.kind = "insertProp" ->
             [text EXCEPT !.props = Append(text.props, fresh)]
        [] edit.kind = "insertEntry" ->
             WithEntries(Append(entries, <<MCP_SERVER_NAME, edit.value>>))
        [] edit.kind = "setEntry" ->
             WithEntries([entries EXCEPT ![ie] = <<MCP_SERVER_NAME, edit.value>>])
        [] edit.kind = "removeEntry" ->
             WithEntries(SubSeq(entries, 1, ie - 1))

applyEdits(text, prop, edit) ==
  LET ip == IndexOf(text.props, prop)
      entries == text.props[ip][2].entries
      ie == IndexOf(entries, MCP_SERVER_NAME)
      fresh == <<prop, ObjectValue(<< <<MCP_SERVER_NAME, edit.value>> >>)>>
      WithEntries(es) == [text EXCEPT !.props[ip][2].entries = es]
  IN  CASE edit.kind = "none" -> text
        [] edit.kind = "replaceRoot" ->
             [root |-> "object", props |-> <<fresh>>, errs |-> text.errs]
        [] edit.kind = "insertProp" ->
             [text EXCEPT !.props = Append(text.props, fresh)]
        [] edit.kind = "insertEntry" ->
             WithEntries(Append(entries, <<MCP_SERVER_NAME, edit.value>>))
        [] edit.kind = "setEntry" ->
             WithEntries([entries EXCEPT ![ie] = <<MCP_SERVER_NAME, edit.value>>])
        [] edit.kind = "removeEntry" ->
             WithEntries(Without(entries, ie))

----------------------------------------------------------------------------
(* The file system seen by a JSON-config adapter:                          *)
(*   [parent, dir, file, content, perm]                                    *)
(* dir is path.dirname(getConfigPath()), parent its own parent directory,  *)
(* file whether the config file exists, content its text; perm is the      *)
(* access the process has there: "rw", "ro" (nothing can be created or     *)
(* written) or "none" (the file cannot be read either).                    *)
(*                                                                         *)
(* The result of running a handler is an outcome                           *)
(*   [threw, val, error, fs, cli, calls, writes, data]                     *)
(* threw: an exception left the handler; val: the boolean returned, or     *)
(* InstallResult.success; error: InstallResult.error ("" when absent);     *)
(* fs, cli: the state the handler leaves; calls: the processes it ran;     *)
(* writes: the handler reached fs.promises.writeFile(configPath, data).    *)

Returned(val, error, f, c, log) ==
  [threw |-> FALSE, val |-> val, error |-> error, fs |-> f, cli |-> c,
   calls |-> log, writes |-> FALSE, data |-> EmptyText]

Thrown(error, f, c, log) ==
  [threw |-> TRUE, val |-> FALSE, error |-> error, fs |-> f, cli |-> c,
   calls |-> log, writes |-> FALSE, data |-> EmptyText]

Writing(f, c, data) ==
  [threw |-> FALSE, val |-> TRUE, error |-> "", fs |-> f, cli |-> c,
   calls |-> <<>>, writes |-> TRUE, data |-> data]

\* catch (error) { return { success: false, error: msg } }
CatchAsFailure(o) == IF o.threw THEN [o EXCEPT !.threw = FALSE, !.val = FALSE] ELSE o

\* catch { return false }
CatchAsFalse(o) ==
  IF o.threw THEN [o EXCEPT !.threw = FALSE, !.val = FALSE, !.error = ""] ELSE o

\* fs.promises.mkdir(dir, { recursive: true })
mkdir(f) == [f EXCEPT !.dir = TRUE, !.parent = TRUE]
mkdirFails(f) == ~f.dir /\ f.perm # "rw"

\* fs.promises.readFile(configPath, 'utf8') of an existing file
readFileFails(f) == f.perm = "none"

\* fs.promises.writeFile(configPath, data, 'utf8') opens the file with flag
\* 'w': the open fails without write access, and otherwise creates the file
\* or truncates it to length 0 before any data is written.
openForWriteFails(f) == f.perm # "rw"
Truncated(f) == [f EXCEPT !.file = TRUE, !.content = EmptyText]

----------------------------------------------------------------------------
(* JsonConfigClient *)

\* isClientSupported without ZedClient's platform test
JsonIsClientSupportedAnyPlatform(c, f, plat) ==
  IF c = "Zed" THEN f.dir ELSE f.dir \/ f.parent

JsonIsClientSupported(c, f, plat) ==
  IF c = "Zed"
  THEN IF plat # "darwin" /\ plat # "linux" THEN FALSE ELSE f.dir
  ELSE f.dir \/ f.parent

\* the try block of isServerInstalled
JsonIsServerInstalledTry(c, f, cl) ==
  IF ~f.file THEN Returned(FALSE, "", f, cl, <<>>)
  ELSE IF readFileFails(f) THEN Thrown("EACCES: permission denied, open", f, cl, <<>>)
  ELSE LET config == parse(f.content)
           prop == getServerPropertyName(c)
       IN  IF config.type \in {"undefined", "null", "scalar"}
           THEN \* `prop in config` on a value that is no object
                Thrown("TypeError: Cannot use 'in' operator", f, cl, <<>>)
           ELSE Returned(
                  /\ HasMember(config.members, prop)
                  /\ MemberOf(config.members, prop).type \in {"object", "array", "null"}
                  /\ MemberOf(config.members, prop).type # "null"
                  /\ HasMember(MemberOf(config.members, prop).members, MCP_SERVER_NAME),
                  "", f, cl, <<>>)

\* isServerInstalled that ensures the config directory first, as addServer does
JsonIsServerInstalledMkdir(c, f, cl) ==
  CatchAsFalse(JsonIsServerInstalledTry(c, mkdir(f), cl))

\* isServerInstalled that only tests `prop in config`
JsonIsServerInstalledPropOnly(c, f, cl) ==
  IF ~f.file \/ readFileFails(f) THEN Returned(FALSE, "", f, cl, <<>>)
  ELSE LET config == parse(f.content)
       IN  Returned(/\ config.type \in {"object", "array"}
                    /\ HasMember(config.members, getServerPropertyName(c)),
                    "", f, cl, <<>>)

JsonIsServerInstalled(c, f, cl) == CatchAsFalse(JsonIsServerInstalledTry(c, f, cl))

\* the try block of addServer up to the call of writeFile
JsonAddServerTry(c, apiKey, f, cl, url) ==
  IF mkdirFails(f) THEN Thrown("EACCES: permission denied, mkdir", f, cl, <<>>)
  ELSE LET f1 == mkdir(f)
           content == IF f1.file THEN f1.content ELSE EmptyText
           prop == getServerPropertyName(c)
           edits == modify(content, prop, getServerConfig(c, apiKey, url))
       IN  IF f1.file /\ readFileFails(f1)
           THEN Thrown("EACCES: permission denied, open", f1, cl, <<>>)
           ELSE IF edits.threw THEN Thrown(edits.error, f1, cl, <<>>)
           ELSE IF openForWriteFails(f1)
           THEN Thrown("EACCES: permission denied, open", f1, cl, <<>>)
           ELSE Writing(f1, cl, applyEdits(content, prop, edits.edit))

\* addServer without its try/catch
JsonAddServerNoCatch(c, apiKey, f, cl, url) == JsonAddServerTry(c, apiKey, f, cl, url)

\* addServer opening the config file for writing before it computes the edit
JsonAddServerOpenFirst(c, apiKey, f, cl, url) ==
  LET o == CatchAsFailure(JsonAddServerTry(c, apiKey, f, cl, url))
  IN  IF o.writes THEN o ELSE [o EXCEPT !.fs = Truncated(o.fs)]

JsonAddServer(c, apiKey, f, cl, url) ==
  CatchAsFailure(JsonAddServerTry(c, apiKey, f, cl, url))

\* the try block of removeServer up to the call of writeFile
JsonRemoveServerTry(c, f, cl) ==
  IF ~f.file THEN Returned(FALSE, "Config not found", f, cl, <<>>)
  ELSE IF readFileFails(f) THEN Thrown("EACCES: permission denied, open", f, cl, <<>>)
  ELSE LET prop == getServerPropertyName(c)
           edits == modify(f.content, prop, Undefined)
       IN  IF edits.threw THEN Thrown(edits.error, f, cl, <<>>)
           ELSE IF openForWriteFails(f)
           THEN Thrown("EACCES: permission denied, open", f, cl, <<>>)
           ELSE Writing(f, cl, applyEdits(f.content, prop, edits.edit))

\* removeServer without the existsSync test: readFile rejects with ENOENT
JsonRemoveServerNoExists(c, f, cl) ==
  IF ~f.file
  THEN CatchAsFailure(Thrown("ENOENT: no such file or directory, open", f, cl, <<>>))
  ELSE CatchAsFailure(JsonRemoveServerTry(c, f, cl))

JsonRemoveServer(c, f, cl) == CatchAsFailure(JsonRemoveServerTry(c, f, cl))

----------------------------------------------------------------------------
(* CLI-invocation adapters.  cli = [bin, registered, cached]:              *)
(* bin: "candidate" when one of the candidate paths exists, "path" when    *)
(* the binary is only found on PATH, "none" when it is nowhere;            *)
(* registered: the agent's own registry holds MCP_SERVER_NAME;             *)
(* cached: ClaudeCodeClient.cachedBinary ("" for null).                    *)
(* An argument is a tuple of strings, the pieces of its template           *)
(* (`CODEALIVE_API_KEY=${apiKey}` is <<"CODEALIVE_API_KEY", "=", apiKey>>).*)
(* A call is [bin, args, ok]; ok says the process exited zero in time,     *)
(* otherwise execFileSync throws.                                          *)

Call(bin, args, ok) == [bin |-> bin, args |-> args, ok |-> ok]

FirstCandidate(name) ==
  IF name = "claude" THEN "~/.claude/local/claude" ELSE "~/.npm/bin/codex"

\* findBinary(name, candidates): [binary, calls], binary "" for null
findBinary(name, cl, plat) ==
  IF cl.bin = "candidate"
  THEN [binary |-> FirstCandidate(name), calls |-> <<>>]
  ELSE LET cmd == IF plat = "win32" THEN "where" ELSE "which"
           ok == cl.bin = "path"
       IN  [binary |-> IF ok THEN name ELSE "",
            calls |-> <<Call(cmd, << <<name>> >>, ok)>>]

\* ClaudeCodeClient.getBinary: [binary, cli, calls]
getBinary(cl, plat) ==
  IF cl.cached # ""
  THEN [binary |-> cl.cached, cli |-> cl, calls |-> <<>>]
  ELSE LET found == findBinary("claude", cl, plat)
       IN  [binary |-> found.binary,
            cli |-> IF found.binary # "" THEN [cl EXCEPT !.cached = found.binary] ELSE cl,
            calls |-> found.calls]

\* CodexClient.findCodexBinary: no cache
findCodexBinary(cl, plat) ==
  LET found == findBinary("codex", cl, plat)
  IN  [binary |-> found.binary, cli |-> cl, calls |-> found.calls]

\* the binary resolution made by operation op of CLI adapter c, if it makes
\* one: CodexClient resolves in isClientSupported and addServer only
Resolves(c, op) ==
  \/ c = "Claude Code"
       /\ op \in {"isClientSupported", "isServerInstalled", "addServer", "removeServer"}
  \/ c = "Codex" /\ op \in {"isClientSupported", "addServer"}

Resolve(c, cl, plat) ==
  IF c = "Claude Code" THEN getBinary(cl, plat) ELSE findCodexBinary(cl, plat)

\* Array.prototype.splice(start, 0, ...items)
Splice(s, start, items) ==
  SubSeq(s, 1, start) \o items \o SubSeq(s, start + 1, Len(s))

Words(ws) == [i \in 1..Len(ws) |-> <<ws[i]>>]

ClaudeRemoveArgs == Words(<<"mcp", "remove", "--scope", "user", MCP_SERVER_NAME>>)

ClaudeAddArgs(apiKey, url) ==
  LET args == Words(<<"mcp", "add", MCP_SERVER_NAME, "-e">>)
                \o << <<"CODEALIVE_API_KEY", "=", apiKey>> >>
                \o Words(<<"-s", "user", "--", MCP_COMMAND>> \o MCP_ARGS)
  IN  IF Truthy(url)
      THEN Splice(args, 4, << <<"-e">>, <<"CODEALIVE_BASE_URL", "=", url>> >>)
      ELSE args

CodexRemoveArgs == Words(<<"mcp", "remove", MCP_SERVER_NAME>>)

CodexAddArgs(apiKey, url) ==
  Words(<<"mcp", "add", MCP_SERVER_NAME, "--env">>)
    \o << <<"CODEALIVE_API_KEY", "=", apiKey>> >>
    \o (IF Truthy(url)
        THEN << <<"--env">>, <<"CODEALIVE_BASE_URL", "=", url>> >>
        ELSE <<>>)
    \o Words(<<"--", MCP_COMMAND>> \o MCP_ARGS)

ClaudeIsClientSupported(f, cl, plat) ==
  LET b == getBinary(cl, plat)
  IN  Returned(b.binary # "", "", f, b.cli, b.calls)

\* in.listOk, in.removeOk, in.addOk: whether the invocation of that
\* subcommand, if made, exits zero within its timeout
ClaudeIsServerInstalled(f, cl, plat, in) ==
  LET b == getBinary(cl, plat)
      log == b.calls \o <<Call(b.binary, Words(<<"mcp", "list">>), in.listOk)>>
  IN  IF b.binary = "" THEN Returned(FALSE, "", f, b.cli, b.calls)
      ELSE IF ~in.listOk
      THEN CatchAsFalse(Thrown("Command failed", f, b.cli, log))
      ELSE \* output.toString().includes(MCP_SERVER_NAME)
           Returned(b.cli.registered, "", f, b.cli, log)

\* addServer without the test of the resolved binary
CliAddServerUnguarded(b, rmArgs, addArgs, notFound, f, in) ==
  LET rm == Call(b.binary, rmArgs, in.removeOk)
      add == Call(b.binary, addArgs, in.addOk)
      log == b.calls \o <<rm, add>>
      cl1 == IF in.removeOk THEN [b.cli EXCEPT !.registered = FALSE] ELSE b.cli
  IN  IF ~in.addOk
      THEN CatchAsFailure(Thrown("Command failed", f, cl1, log))
      ELSE Returned(TRUE, "", f, [cl1 EXCEPT !.registered = TRUE], log)

\* addServer whose remove attempt shares the try of the add attempt
CliAddServerOneTry(b, rmArgs, addArgs, notFound, f, in) ==
  LET rm == Call(b.binary, rmArgs, in.removeOk)
      add == Call(b.binary, addArgs, in.addOk)
      cl1 == [b.cli EXCEPT !.registered = FALSE]
  IN  IF b.binary = "" THEN Returned(FALSE, notFound, f, b.cli, b.calls)
      ELSE IF ~in.removeOk
      THEN CatchAsFailure(Thrown("Command failed", f, b.cli, b.calls \o <<rm>>))
      ELSE IF ~in.addOk
      THEN CatchAsFailure(Thrown("Command failed", f, cl1, b.calls \o <<rm, add>>))
      ELSE Returned(TRUE, "", f, [cl1 EXCEPT !.registered = TRUE],
                    b.calls \o <<rm, add>>)

\* remove-then-add of both CLI adapters, given the resolved binary
CliAddServer(b, rmArgs, addArgs, notFound, f, in) ==
  LET rm == Call(b.binary, rmArgs, in.removeOk)
      add == Call(b.binary, addArgs, in.addOk)
      log == b.calls \o <<rm, add>>
      cl1 == IF in.removeOk THEN [b.cli EXCEPT !.registered = FALSE] ELSE b.cli
  IN  IF b.binary = "" THEN Returned(FALSE, notFound, f, b.cli, b.calls)
      ELSE IF ~in.addOk
      THEN CatchAsFailure(Thrown("Command failed", f, cl1, log))
      ELSE Returned(TRUE, "", f, [cl1 EXCEPT !.registered = TRUE], log)

ClaudeAddServer(apiKey, f, cl, plat, url, in) ==
  CliAddServer(getBinary(cl, plat), ClaudeRemoveArgs, ClaudeAddArgs(apiKey, url),
               "Claude Code CLI not found", f, in)

ClaudeRemoveServer(f, cl, plat, in) ==
  LET b == getBinary(cl, plat)
      log == b.calls \o <<Call(b.binary, ClaudeRemoveArgs, in.removeOk)>>
  IN  IF b.binary = "" THEN Returned(FALSE, "Claude Code CLI not found", f, b.cli, b.calls)
      ELSE IF ~in.removeOk
      THEN CatchAsFailure(Thrown("Command failed", f, b.cli, log))
      ELSE Returned(TRUE, "", f, [b.cli EXCEPT !.registered = FALSE], log)

CodexIsClientSupported(f, cl, plat) ==
  LET b == findCodexBinary(cl, plat)
  IN  Returned(b.binary # "", "", f, b.cli, b.calls)

CodexAddServer(apiKey, f, cl, plat, url, in) ==
  CliAddServer(findCodexBinary(cl, plat), CodexRemoveArgs, CodexAddArgs(apiKey, url),
               "Codex CLI not found", f, in)

\* MCPClient.isServerInstalled and MCPClient.removeServer, which CodexClient
\* inherits
BaseIsServerInstalled(f, cl) == Returned(FALSE, "", f, cl, <<>>)
BaseRemoveServer(f, cl) == Returned(FALSE, "Not implemented", f, cl, <<>>)

----------------------------------------------------------------------------
(* The four operations of an adapter, dispatched on its class *)

IsClientSupported(c, f, cl, plat) ==
  CASE c = "Claude Code" -> ClaudeIsClientSupported(f, cl, plat)
    [] c = "Codex" -> CodexIsClientSupported(f, cl, plat)
    [] OTHER -> Returned(JsonIsClientSupported(c, f, plat), "", f, cl, <<>>)

IsServerInstalled(c, f, cl, plat, in) ==
  CASE c = "Claude Code" -> ClaudeIsServerInstalled(f, cl, plat, in)
    [] c = "Codex" -> BaseIsServerInstalled(f, cl)
    [] OTHER -> JsonIsServerInstalled(c, f, cl)

AddServer(c, apiKey, f, cl, plat, url, in) ==
  CASE c = "Claude Code" -> ClaudeAddServer(apiKey, f, cl, plat, url, in)
    [] c = "Codex" -> CodexAddServer(apiKey, f, cl, plat, url, in)
    [] OTHER -> JsonAddServer(c, apiKey, f, cl, url)

RemoveServer(c, f, cl, plat, in) ==
  CASE c = "Claude Code" -> ClaudeRemoveServer(f, cl, plat, in)
    [] c = "Codex" -> BaseRemoveServer(f, cl)
    [] OTHER -> JsonRemoveServer(c, f, cl)

----------------------------------------------------------------------------
(* Initial states *)

Entry(cmd, arg) ==
  [fields |-> {<<"command", "string", <<cmd>>>>, <<"args", "array", <<arg>>>>},
   envKey |-> "", env |-> {}]

EntryNames == {MCP_SERVER_NAME, "other", "extra"}

InitialEntry(name) ==
  CASE name = MCP_SERVER_NAME -> Entry(MCP_COMMAND, "codealive-mcp")
    [] name = "other" -> Entry("node", "server.js")
    [] OTHER -> Entry("npx", "extra-mcp")

\* sequences of at most MaxEntries entries with distinct names
EntrySeqs ==
  UNION {{[i \in 1..n |-> <<names[i], InitialEntry(names[i])>>] :
            names \in {ns \in [1..n -> EntryNames] :
                         \A i, j \in 1..n : i # j => ns[i] # ns[j]}} :
         n \in 0..MaxEntries}

PropValues ==
  {PlainValue("array", ""), PlainValue("scalar", "42"), PlainValue("null", "")}
    \cup {ObjectValue(es) : es \in EntrySeqs}

Theme == <<"theme", PlainValue("scalar", "dark")>>

InitialTexts(prop) ==
  {[root |-> r, props |-> <<>>, errs |-> e] :
     r \in {"none", "array", "scalar", "null", "object"}, e \in BOOLEAN}
    \cup {[root |-> "object", props |-> ps, errs |-> e] :
            ps \in {<<Theme>>} \cup UNION {{<< <<prop, v>> >>, <<Theme, <<prop, v>>>>} :
                                             v \in PropValues},
            e \in BOOLEAN}

Perms == {"rw", "ro", "none"}

InitialFs(c) ==
  {[parent |-> TRUE, dir |-> TRUE, file |-> TRUE, content |-> t, perm |-> p] :
     t \in InitialTexts(getServerPropertyName(c)), p \in Perms}
    \cup {[parent |-> d[1], dir |-> d[2], file |-> FALSE, content |-> EmptyText,
           perm |-> p] :
            d \in {<<FALSE, FALSE>>, <<TRUE, FALSE>>, <<TRUE, TRUE>>}, p \in Perms}

NoFs == [parent |-> FALSE, dir |-> FALSE, file |-> FALSE, content |-> EmptyText,
         perm |-> "rw"]

InitialCli ==
  [bin : {"none", "candidate", "path"}, registered : BOOLEAN, cached : {""}]

NoCli == [bin |-> "none", registered |-> FALSE, cached |-> ""]

NoPending == [op |-> "none", arg |-> "", data |-> EmptyText]

NoOp ==
  [op |-> "none", arg |-> "", done |-> TRUE, threw |-> FALSE, val |-> FALSE,
   error |-> ""]

\* the environment of an adapter: the variables its getConfigPath reads on
\* the platform take every value, the others are not defined
InitialEnvs(c, plat) ==
  [APPDATA : IF plat = "win32" /\ c \in JsonClients \ {"Zed", "Antigravity"}
             THEN AppDatas ELSE {Unset},
   XDG_CONFIG_HOME : IF c = "Zed" THEN XdgConfigHomes ELSE {Unset}]

\* no registry or orchestrator function is running
NoRun ==
  /\ fn = "none"
  /\ world = <<>>
  /\ ci = FALSE
  /\ ipc = "off"
  /\ idx = 0
  /\ supportedNames = {}
  /\ selectedClients = <<>>
  /\ installed = <<>>
  /\ succeeded = <<>>
  /\ failed = <<>>
  /\ supported = <<>>
  /\ added = <<>>
  /\ ret = <<>>

\* VerifyResult before any verification, no authentication call in progress,
\* and the three installed* flags of runWizard before the install steps
NoResult == [valid |-> FALSE, message |-> <<>>, datasourceCount |-> <<>>]
NoJsonBody == [json |-> FALSE, array |-> FALSE, length |-> 0]
NoOutcome ==
  [thrown |-> FALSE, status |-> 0, body |-> NoJsonBody, isError |-> FALSE,
   name |-> "", text |-> ""]
NoAuth ==
  [fn |-> "none", at |-> "", source |-> "", key |-> Unset, outcome |-> NoOutcome,
   result |-> NoResult]
NoFlags == [plugin |-> FALSE, skill |-> FALSE, mcp |-> FALSE]

\* runWizard is not running
NoWizard ==
  /\ wpc = "off"
  /\ providedKey = Unset
  /\ keyring = [env |-> Unset, saved |-> Unset, writable |-> FALSE]
  /\ actions = {}
  /\ obtainedKey = Unset
  /\ auth = NoAuth
  /\ verifications = <<>>
  /\ steps = <<>>
  /\ spawned = <<>>
  /\ flags = NoFlags
  /\ exitCode = -1
  /\ prompts = <<>>

Init ==
  /\ NoRun
  /\ NoWizard
  /\ client \in AllClients
  /\ platform \in Platforms
  /\ baseUrl \in BaseUrls
  /\ env \in InitialEnvs(client, platform)
  /\ resolved = ""
  /\ fs \in IF client \in JsonClients THEN InitialFs(client) ELSE {NoFs}
  /\ cli \in IF client \in CliClients THEN InitialCli ELSE {NoCli}
  /\ pc = "idle"
  /\ pending = NoPending
  /\ last = NoOp
  /\ pre = fs
  /\ preCli = cli
  /\ calls = <<>>

----------------------------------------------------------------------------
(* Actions: one call of an adapter operation.  A handler that reaches      *)
(* writeFile suspends there with the file opened and truncated; the write  *)
(* then completes (FinishWrite) or fails part-way (FailWrite).             *)

ExecOutcome(l, r, a) == [listOk |-> l, removeOk |-> r, addOk |-> a]

\* the outcomes of the invocations operation op of adapter c can make
ExecOutcomes(c, op) ==
  CASE c = "Claude Code" /\ op = "isServerInstalled" ->
         {ExecOutcome(l, TRUE, TRUE) : l \in BOOLEAN}
    [] c = "Claude Code" /\ op = "removeServer" ->
         {ExecOutcome(TRUE, r, TRUE) : r \in BOOLEAN}
    [] c \in CliClients /\ op = "addServer" ->
         {ExecOutcome(TRUE, r, a) : r \in BOOLEAN, a \in BOOLEAN}
    [] OTHER -> {ExecOutcome(TRUE, TRUE, TRUE)}

Completed(op, arg, o) ==
  [op |-> op, arg |-> arg, done |-> TRUE, threw |-> o.threw, val |-> o.val,
   error |-> o.error]

Started(op, arg) ==
  [op |-> op, arg |-> arg, done |-> FALSE, threw |-> FALSE, val |-> FALSE,
   error |-> ""]

Run(op, arg, o) ==
  /\ pre' = fs
  /\ preCli' = cli
  /\ cli' = o.cli
  /\ calls' = o.calls
  /\ IF o.writes
     THEN /\ fs' = Truncated(o.fs)
          /\ pc' = "writing"
          /\ pending' = [op |-> op, arg |-> arg, data |-> o.data]
          /\ last' = Started(op, arg)
     ELSE /\ fs' = o.fs
          /\ pc' = "idle"
          /\ pending' = NoPending
          /\ last' = Completed(op, arg, o)
  /\ resolved' = IF resolved = "" /\ client \in CliClients /\ Resolves(client, op)
                 THEN Resolve(client, cli, platform).binary
                 ELSE resolved
  /\ UNCHANGED <<client, platform, baseUrl, env>>
  /\ UNCHANGED <<ivars, wvars>>

DoIsClientSupported ==
  /\ pc = "idle"
  /\ Run("isClientSupported", "", IsClientSupported(client, fs, cli, platform))

DoIsServerInstalled ==
  /\ pc = "idle"
  /\ \E in \in ExecOutcomes(client, "isServerInstalled") :
       Run("isServerInstalled", "", IsServerInstalled(client, fs, cli, platform, in))

DoAddServer ==
  /\ pc = "idle"
  /\ \E apiKey \in Keys, in \in ExecOutcomes(client, "addServer") :
       Run("addServer", apiKey,
           AddServer(client, apiKey, fs, cli, platform, baseUrl, in))

DoRemoveServer ==
  /\ pc = "idle"
  /\ \E in \in ExecOutcomes(client, "removeServer") :
       Run("removeServer", "", RemoveServer(client, fs, cli, platform, in))

\* writeFile resolves: the data is in the file, the handler returns success
FinishWrite ==
  /\ pc = "writing"
  /\ fs' = [fs EXCEPT !.content = pending.data]
  /\ last' = [last EXCEPT !.done = TRUE, !.val = TRUE]
  /\ pc' = "idle"
  /\ pending' = NoPending
  /\ UNCHANGED <<client, platform, baseUrl, env, cli, pre, preCli, calls, resolved>>
  /\ UNCHANGED <<ivars, wvars>>

\* writeFile rejects after the open (ENOSPC, EIO): the handler's catch turns
\* the error into a failure result; the file stays as the open left it
FailWrite ==
  /\ pc = "writing"
  /\ last' = [last EXCEPT !.done = TRUE, !.val = FALSE,
                          !.error = "ENOSPC: no space left on device, write"]
  /\ pc' = "idle"
  /\ pending' = NoPending
  /\ UNCHANGED <<client, platform, baseUrl, env, fs, cli, pre, preCli, calls,
                 resolved>>
  /\ UNCHANGED <<ivars, wvars>>

\* the environment of a CLI adapter changes between two operations: the agent
\* binary is installed, uninstalled or moved
ChangeBinary ==
  /\ pc = "idle"
  /\ client \in CliClients
  /\ \E b \in {"none", "candidate", "path"} \ {cli.bin} :
       cli' = [cli EXCEPT !.bin = b]
  /\ UNCHANGED <<client, platform, baseUrl, env, fs, pc, pending, last, pre, preCli,
                 calls, resolved>>
  /\ UNCHANGED <<ivars, wvars>>

Next ==
  \/ DoIsClientSupported
  \/ DoIsServerInstalled
  \/ DoAddServer
  \/ DoRemoveServer
  \/ FinishWrite
  \/ FailWrite
  \/ ChangeBinary

Spec == Init /\ [][Next]_vars

----------------------------------------------------------------------------
(* The registry and the orchestrator: getSupportedClients() and            *)
(* installMcp(apiKey, options) over the ten instances of getAllClients().  *)
(* world[c] is the site of adapter c: [fs, cli] as above.  Each await of   *)
(* a loop body is one action.                                              *)

InstalledText(c) ==
  [root |-> "object",
   props |-> << <<getServerPropertyName(c),
                  ObjectValue(<< <<MCP_SERVER_NAME, InitialEntry(MCP_SERVER_NAME)>> >>)>> >>,
   errs |-> FALSE]

\* the agent is not on the machine
AbsentSite(c) ==
  IF c \in JsonClients
  THEN [fs |-> [parent |-> FALSE, dir |-> FALSE, file |-> FALSE,
                content |-> EmptyText, perm |-> "rw"],
        cli |-> NoCli]
  ELSE [fs |-> NoFs, cli |-> NoCli]

SiteKinds == {"fresh", "installed", "locked"}

\* the agent is on the machine: without the server, with the server, or
\* (JSON) with a config directory that cannot be written, (CLI) with a
\* binary found on PATH only
PresentSite(c, kind) ==
  IF c \in JsonClients
  THEN [fs |-> [parent |-> TRUE, dir |-> TRUE, file |-> kind = "installed",
                content |-> IF kind = "installed" THEN InstalledText(c) ELSE EmptyText,
                perm |-> IF kind = "locked" THEN "ro" ELSE "rw"],
        cli |-> NoCli]
  ELSE [fs |-> NoFs,
        cli |-> [bin |-> IF kind = "locked" THEN "path" ELSE "candidate",
                 registered |-> kind = "installed", cached |-> ""]]

\* machines with at most MaxPresent agents, each of any kind
SparseWorlds ==
  UNION {{[c \in AllClients |-> IF c \in P THEN PresentSite(c, kinds[c])
                                ELSE AbsentSite(c)] :
            kinds \in [P -> SiteKinds]} :
         P \in {Q \in SUBSET AllClients : Cardinality(Q) <= MaxPresent}}

\* machines with every agent, all of one kind
FullWorlds == {[c \in AllClients |-> PresentSite(c, kind)] : kind \in SiteKinds}

Worlds == SparseWorlds \cup FullWorlds

\* what the user can tick in the multiselect prompt
Selections == {Q \in SUBSET AllClients : Cardinality(Q) <= MaxSelected}

InstallPlatforms == {"linux", "win32"}
InstallKey == "key-A"

\* the apiKey argument of installMcp: the key runWizard obtained, InstallKey
\* when installMcp is called on its own
KeyArgument == IF wpc = "off" THEN InstallKey ELSE obtainedKey

\* result.error || 'Unknown error'
OrUnknown(error) == IF error = "" THEN "Unknown error" ELSE error

\* an answered and a cancelled prompt
Answer(prompt, value) == [prompt |-> prompt, cancelled |-> FALSE, value |-> <<value>>]
Cancelled(prompt) == [prompt |-> prompt, cancelled |-> TRUE, value |-> <<>>]

\* what the user can answer to the multiselect prompt of installMcp, whose
\* initialValues are the detected agents: the preselection, or any selection
\* of at most MaxSelected agents (under the wizard: the preselection or none)
PromptAnswers(initialValues) ==
  {initialValues} \cup (IF wpc = "off" THEN Selections ELSE {{}})

\* no adapter operation is under exercise on its own
NoAdapter ==
  /\ client = "none"
  /\ baseUrl = Unset
  /\ env = [APPDATA |-> Unset, XDG_CONFIG_HOME |-> Unset]
  /\ fs = NoFs
  /\ cli = NoCli
  /\ pc = "idle"
  /\ pending = NoPending
  /\ last = NoOp
  /\ pre = NoFs
  /\ preCli = NoCli
  /\ calls = <<>>
  /\ resolved = ""

InstallInit ==
  /\ NoAdapter
  /\ NoWizard
  /\ platform \in InstallPlatforms
  /\ fn \in {"getSupportedClients", "installMcp"}
  /\ world \in Worlds
  /\ ci \in IF fn = "installMcp" THEN BOOLEAN ELSE {FALSE}
  /\ ipc = "detect"
  /\ idx = 1
  /\ supportedNames = {}
  /\ selectedClients = <<>>
  /\ installed = <<>>
  /\ succeeded = <<>>
  /\ failed = <<>>
  /\ supported = <<>>
  /\ added = <<>>
  /\ ret = <<>>

\* allClients.filter((c) => names.has(c.name))
FilterClients(list, names) == SelectSeq(list, LAMBDA c : c \in names)

\* an adapter operation run to its end on a site: the write it starts
\* resolves (writeOk) or rejects after the open
Settle(o, writeOk) ==
  IF o.writes
  THEN [val |-> writeOk,
        error |-> IF writeOk THEN "" ELSE "ENOSPC: no space left on device, write",
        fs |-> IF writeOk THEN [Truncated(o.fs) EXCEPT !.content = o.data]
               ELSE Truncated(o.fs),
        cli |-> o.cli]
  ELSE [val |-> o.val, error |-> o.error, fs |-> o.fs, cli |-> o.cli]

Return(value) ==
  /\ ipc' = "returned"
  /\ ret' = value

\* getSupportedClients that puts a supported client in front of the list
ProbeClientUnshift ==
  /\ fn = "getSupportedClients" /\ ipc = "detect" /\ idx <= Len(getAllClients)
  /\ LET c == getAllClients[idx]
         o == IsClientSupported(c, world[c].fs, world[c].cli, platform)
     IN  /\ supported' = IF o.val THEN <<c>> \o supported ELSE supported
         /\ world' = [world EXCEPT ![c].cli = o.cli]
  /\ idx' = idx + 1
  /\ UNCHANGED <<fn, ci, ipc, supportedNames, selectedClients, installed, succeeded,
                 failed, added, ret>>
  /\ UNCHANGED <<avars, wvars>>

\* getSupportedClients: one iteration of `for (const client of all)`
ProbeClient ==
  /\ fn = "getSupportedClients" /\ ipc = "detect" /\ idx <= Len(getAllClients)
  /\ LET c == getAllClients[idx]
         o == IsClientSupported(c, world[c].fs, world[c].cli, platform)
     IN  /\ supported' = IF o.val THEN Append(supported, c) ELSE supported
         /\ world' = [world EXCEPT ![c].cli = o.cli]
  /\ idx' = idx + 1
  /\ UNCHANGED <<fn, ci, ipc, supportedNames, selectedClients, installed, succeeded,
                 failed, added, ret>>
  /\ UNCHANGED <<avars, wvars>>

\* getSupportedClients: return supported
ReturnSupported ==
  /\ fn = "getSupportedClients" /\ ipc = "detect" /\ idx > Len(getAllClients)
  /\ Return(supported)
  /\ UNCHANGED <<fn, world, ci, idx, supportedNames, selectedClients, installed,
                 succeeded, failed, supported, added>>
  /\ UNCHANGED <<avars, wvars>>

\* installMcp: one iteration of the detection loop
Detect ==
  /\ fn = "installMcp" /\ ipc = "detect" /\ idx <= Len(getAllClients)
  /\ LET c == getAllClients[idx]
         o == IsClientSupported(c, world[c].fs, world[c].cli, platform)
     IN  /\ supportedNames' = IF o.val THEN supportedNames \cup {c} ELSE supportedNames
         /\ world' = [world EXCEPT ![c].cli = o.cli]
  /\ idx' = idx + 1
  /\ UNCHANGED <<fn, ci, ipc, selectedClients, installed, succeeded, failed,
                 supported, added, ret>>
  /\ UNCHANGED <<avars, wvars>>

\* installMcp with options.ci selecting every client of the registry
SelectCiAll ==
  /\ fn = "installMcp" /\ ipc = "detect" /\ idx > Len(getAllClients) /\ ci
  /\ selectedClients' = getAllClients
  /\ idx' = 1
  /\ ipc' = "install"
  /\ UNCHANGED <<fn, world, ci, supportedNames, installed, succeeded, failed,
                 supported, added, ret>>
  /\ UNCHANGED <<avars, wvars>>

\* installMcp with options.ci: every supported client is selected, the
\* check for existing installations is skipped
SelectCi ==
  /\ fn = "installMcp" /\ ipc = "detect" /\ idx > Len(getAllClients) /\ ci
  /\ selectedClients' = FilterClients(getAllClients, supportedNames)
  /\ idx' = 1
  /\ IF selectedClients' = <<>>
     THEN Return(<<>>)
     ELSE ipc' = "install" /\ ret' = ret
  /\ UNCHANGED <<fn, world, ci, supportedNames, installed, succeeded, failed,
                 supported, added>>
  /\ UNCHANGED <<avars, wvars>>

\* installMcp without options.ci: the user answers the multiselect prompt
SelectPrompt ==
  /\ fn = "installMcp" /\ ipc = "detect" /\ idx > Len(getAllClients) /\ ~ci
  /\ \E selectedNames \in PromptAnswers(supportedNames) :
       /\ selectedClients' = FilterClients(getAllClients, selectedNames)
       /\ prompts' = Append(prompts, Answer("agents", selectedNames))
  /\ idx' = 1
  /\ IF selectedClients' = <<>>
     THEN Return(<<>>)
     ELSE ipc' = "check" /\ ret' = ret
  /\ UNCHANGED <<fn, world, ci, supportedNames, installed, succeeded, failed,
                 supported, added>>
  /\ UNCHANGED <<avars, wrest, exitCode>>

\* abortIfCancelled: the user cancels a prompt, the process exits
Cancel ==
  /\ fn = "installMcp" /\ ~ci
  /\ \/ ipc = "detect" /\ idx > Len(getAllClients)
     \/ ipc = "check" /\ idx > Len(selectedClients) /\ installed # <<>>
  /\ ipc' = "exited"
  /\ prompts' = Append(prompts, Cancelled(IF ipc = "detect" THEN "agents"
                                          ELSE "reinstall"))
  /\ exitCode' = 0
  /\ UNCHANGED <<fn, world, ci, idx, supportedNames, selectedClients, installed,
                 succeeded, failed, supported, added, ret>>
  /\ UNCHANGED <<avars, wrest>>

\* installMcp: one iteration of the check for existing installations
CheckInstalled ==
  /\ fn = "installMcp" /\ ipc = "check" /\ idx <= Len(selectedClients)
  /\ LET c == selectedClients[idx]
     IN  \E in \in ExecOutcomes(c, "isServerInstalled") :
           LET o == IsServerInstalled(c, world[c].fs, world[c].cli, platform, in)
           IN  /\ installed' = IF o.val THEN Append(installed, c) ELSE installed
               /\ world' = [world EXCEPT ![c].cli = o.cli]
  /\ idx' = idx + 1
  /\ UNCHANGED <<fn, ci, ipc, supportedNames, selectedClients, succeeded, failed,
                 supported, added, ret>>
  /\ UNCHANGED <<avars, wvars>>

\* installMcp going on with every selected client whatever the answer is
ConfirmIgnoresAnswer ==
  /\ fn = "installMcp" /\ ipc = "check" /\ idx > Len(selectedClients)
  /\ \E reinstall \in IF installed = <<>> THEN {TRUE} ELSE BOOLEAN :
       prompts' = IF installed = <<>> THEN prompts
                  ELSE Append(prompts, Answer("reinstall", reinstall))
  /\ idx' = 1
  /\ ipc' = "install"
  /\ UNCHANGED <<fn, world, ci, supportedNames, selectedClients, installed,
                 succeeded, failed, supported, added, ret>>
  /\ UNCHANGED <<avars, wrest, exitCode>>

\* installMcp: nothing is installed yet, or the user answers the reinstall
\* confirmation
Confirm ==
  /\ fn = "installMcp" /\ ipc = "check" /\ idx > Len(selectedClients)
  /\ \E reinstall \in IF installed = <<>> THEN {TRUE} ELSE BOOLEAN :
       /\ selectedClients' =
            IF reinstall THEN selectedClients
            ELSE SelectSeq(selectedClients,
                           LAMBDA c : \A i \in 1..Len(installed) : installed[i] # c)
       /\ prompts' = IF installed = <<>> THEN prompts
                     ELSE Append(prompts, Answer("reinstall", reinstall))
  /\ idx' = 1
  /\ IF selectedClients' = <<>>
     THEN Return(<<>>)
     ELSE ipc' = "install" /\ ret' = ret
  /\ UNCHANGED <<fn, world, ci, supportedNames, installed, succeeded, failed,
                 supported, added>>
  /\ UNCHANGED <<avars, wrest, exitCode>>

\* the install loop leaving at the first failure
InstallAbortOnFailure ==
  /\ fn = "installMcp" /\ ipc = "install" /\ idx <= Len(selectedClients)
  /\ LET c == selectedClients[idx]
     IN  \E in \in ExecOutcomes(c, "addServer"), writeOk \in BOOLEAN :
           LET result == Settle(AddServer(c, KeyArgument, world[c].fs, world[c].cli,
                                          platform, baseUrl, in), writeOk)
           IN  /\ world' = [world EXCEPT ![c] = [fs |-> result.fs, cli |-> result.cli]]
               /\ added' = Append(added, [name |-> c, success |-> result.val,
                                          key |-> KeyArgument])
               /\ IF result.val
                  THEN /\ succeeded' = Append(succeeded, c)
                       /\ failed' = failed
                       /\ ipc' = ipc /\ ret' = ret
                  ELSE /\ succeeded' = succeeded
                       /\ failed' = Append(failed, [name |-> c, error |-> OrUnknown(result.error)])
                       /\ Return(succeeded)
  /\ idx' = idx + 1
  /\ UNCHANGED <<fn, ci, supportedNames, selectedClients, installed, supported>>
  /\ UNCHANGED <<avars, wvars>>

\* installMcp: one iteration of the install loop
Install ==
  /\ fn = "installMcp" /\ ipc = "install" /\ idx <= Len(selectedClients)
  /\ LET c == selectedClients[idx]
     IN  \E in \in ExecOutcomes(c, "addServer"), writeOk \in BOOLEAN :
           LET result == Settle(AddServer(c, KeyArgument, world[c].fs, world[c].cli,
                                          platform, baseUrl, in), writeOk)
           IN  /\ world' = [world EXCEPT ![c] = [fs |-> result.fs, cli |-> result.cli]]
               /\ added' = Append(added, [name |-> c, success |-> result.val,
                                          key |-> KeyArgument])
               /\ IF result.val
                  THEN /\ succeeded' = Append(succeeded, c)
                       /\ failed' = failed
                  ELSE /\ succeeded' = succeeded
                       /\ failed' = Append(failed, [name |-> c, error |-> OrUnknown(result.error)])
  /\ idx' = idx + 1
  /\ UNCHANGED <<fn, ci, ipc, supportedNames, selectedClients, installed, supported,
                 ret>>
  /\ UNCHANGED <<avars, wvars>>

\* installMcp: return succeeded
ReturnSucceeded ==
  /\ fn = "installMcp" /\ ipc = "install" /\ idx > Len(selectedClients)
  /\ Return(succeeded)
  /\ UNCHANGED <<fn, world, ci, idx, supportedNames, selectedClients, installed,
                 succeeded, failed, supported, added>>
  /\ UNCHANGED <<avars, wvars>>

InstallNext ==
  \/ ProbeClient
  \/ ReturnSupported
  \/ Detect
  \/ SelectCi
  \/ SelectPrompt
  \/ Cancel
  \/ CheckInstalled
  \/ Confirm
  \/ Install
  \/ ReturnSucceeded

InstallSpec == InstallInit /\ [][InstallNext]_vars

----------------------------------------------------------------------------
(* Authentication (src/src/auth.ts, src/src/credentials.ts), the plugin    *)
(* and skill steps (src/src/install.ts) and the wizard runWizard.  The     *)
(* process is single-threaded: one action runs it from one await to the    *)
(* next.                                                                   *)

MaxSources == 2

Statuses == {200, 201, 401, 403, 500}

\* response.ok
Ok(status) == status \in 200..299

\* what `await response.json()` finds in the body: a JSON array of n
\* elements, another JSON value, or a text that is no JSON
ListBody(n) == [json |-> TRUE, array |-> TRUE, length |-> n]
ObjectBody == [json |-> TRUE, array |-> FALSE, length |-> 0]
Bodies == {ListBody(n) : n \in 0..MaxSources} \cup {ObjectBody, NoJsonBody}

Responded(status, body) ==
  [thrown |-> FALSE, status |-> status, body |-> body, isError |-> FALSE,
   name |-> "", text |-> ""]

\* fetch rejects: the value thrown, whether it is an Error, its name, and
\* its message (String(error) for a value that is no Error)
Rejected(isError, name, text) ==
  [thrown |-> TRUE, status |-> 0, body |-> NoJsonBody, isError |-> isError,
   name |-> name, text |-> text]

\* the outcomes of the GET of VERIFY_ENDPOINT; the body of a response that
\* is not ok is not read
FetchOutcomes ==
  {Responded(s, b) : s \in {t \in Statuses : Ok(t)}, b \in Bodies}
    \cup {Responded(s, NoJsonBody) : s \in {t \in Statuses : ~Ok(t)}}
    \cup {Rejected(TRUE, "TimeoutError", "The operation was aborted due to timeout"),
          Rejected(TRUE, "TypeError", "fetch failed"),
          Rejected(FALSE, "", "ECONNRESET")}

Invalid(message) == [valid |-> FALSE, message |-> message, datasourceCount |-> <<>>]

\* the catch block of verifyKey
VerifyCatch(isError, name, text) ==
  IF isError /\ name = "TimeoutError"
  THEN Invalid(<<"Connection timed out.">>)
  ELSE Invalid(<<"Cannot connect: ", text>>)

\* verifyKey that writes "data sources" for every count
verifyKeyAlwaysPlural(o) ==
  IF o.thrown THEN VerifyCatch(o.isError, o.name, o.text)
  ELSE IF ~Ok(o.status)
  THEN IF o.status = 401 THEN Invalid(<<"API key is invalid or expired.">>)
       ELSE Invalid(<<"API returned HTTP ", ToString(o.status), ".">>)
  ELSE IF ~o.body.json
  THEN VerifyCatch(TRUE, "SyntaxError", "Unexpected token < in JSON at position 0")
  ELSE LET count == IF o.body.array THEN o.body.length ELSE 0
       IN  [valid |-> TRUE,
            message |-> <<"Connected. ", ToString(count), " data source", "s",
                          " available.">>,
            datasourceCount |-> <<count>>]

\* verifyKey(apiKey) when the request comes to outcome o; a message is the
\* sequence of the pieces of its template
verifyKey(o) ==
  IF o.thrown THEN VerifyCatch(o.isError, o.name, o.text)
  ELSE IF ~Ok(o.status)
  THEN IF o.status = 401 THEN Invalid(<<"API key is invalid or expired.">>)
       ELSE Invalid(<<"API returned HTTP ", ToString(o.status), ".">>)
  ELSE IF ~o.body.json
  THEN \* response.json() throws a SyntaxError inside the try block
       VerifyCatch(TRUE, "SyntaxError", "Unexpected token < in JSON at position 0")
  ELSE LET count == IF o.body.array THEN o.body.length ELSE 0
       IN  [valid |-> TRUE,
            message |-> <<"Connected. ", ToString(count), " data source",
                          IF count # 1 THEN "s" ELSE "", " available.">>,
            datasourceCount |-> <<count>>]

\* readKey(): CODEALIVE_API_KEY, else the credential store, else null
readKey(ring) ==
  IF Truthy(ring.env) THEN ring.env
  ELSE IF Truthy(ring.saved) THEN ring.saved
  ELSE Unset

\* storeKey(apiKey): the store after the call (unchanged when it fails)
storeKey(ring, key) == IF ring.writable THEN [ring EXCEPT !.saved = key] ELSE ring

ProvidedKeys == {Unset, "", "key-A"}
\* the variable is set on machines without a usable credential store
Keyrings ==
  {r \in [env : {Unset, "key-E"}, saved : {Unset, "key-S"}, writable : BOOLEAN] :
     Truthy(r.env) => ~Truthy(r.saved) /\ ~r.writable}
PastedKeys == {"key-P", " key-P "}

\* String.prototype.trim on the pasted keys
trim(s) == IF s = " key-P " THEN "key-P" ELSE s

\* a function of auth.ts suspended at `await`: at "verifyKey" for a
\* verification of key, at "confirm" and "password" for a prompt; source
\* tells which candidate the key is
Awaiting(name, at, source, key) ==
  [fn |-> name, at |-> at, source |-> source, key |-> key, outcome |-> NoOutcome,
   result |-> NoResult]

AwaitingPrompt == Awaiting("promptForApiKey", "confirm", "pasted", Unset)

\* getApiKey from `const existing = readKey()` to its next await
FromStored(ring) ==
  IF Truthy(readKey(ring))
  THEN Awaiting("getApiKey", "verifyKey", "stored", readKey(ring))
  ELSE AwaitingPrompt

----------------------------------------------------------------------------
(* runWizard *)

Steps == {"plugin", "skill", "mcp"}

\* runWizard with the skill step in front of the plugin step
StepOrderSkillFirst == <<"skill", "plugin", "mcp">>

StepOrder == <<"plugin", "skill", "mcp">>

\* the first install step after step i of StepOrder that runWizard runs for
\* these actions and this apiKey, "outro" when there is none
StepAfter(i, acts, key) ==
  LET later == {j \in (i + 1)..Len(StepOrder) :
                  /\ StepOrder[j] \in acts
                  /\ StepOrder[j] = "mcp" => Truthy(key)}
  IN  IF later = {} THEN "outro"
      ELSE StepOrder[CHOOSE j \in later : \A k \in later : j <= k]

\* const needsAuth = actions.includes('mcp')
needsAuth(acts) == "mcp" \in acts

\* the machines the wizard is run on: no agent at all, or the WizardAgents,
\* both of one kind
WizardAgents == {"Claude Code", "Cursor"}
WizardWorlds ==
  {[c \in AllClients |-> AbsentSite(c)]}
    \cup {[c \in AllClients |-> IF c \in WizardAgents THEN PresentSite(c, kind)
                                 ELSE AbsentSite(c)] :
            kind \in SiteKinds}

WizardPlatform == "linux"

WizardInit ==
  /\ NoAdapter
  /\ platform = WizardPlatform
  /\ fn = "none"
  /\ world \in WizardWorlds
  /\ ci \in BOOLEAN
  /\ ipc = "off"
  /\ idx = 0
  /\ supportedNames = {}
  /\ selectedClients = <<>>
  /\ installed = <<>>
  /\ succeeded = <<>>
  /\ failed = <<>>
  /\ supported = <<>>
  /\ added = <<>>
  /\ ret = <<>>
  /\ wpc = "select"
  /\ providedKey \in ProvidedKeys
  /\ keyring \in Keyrings
  /\ actions = {}
  /\ obtainedKey = Unset
  /\ auth = NoAuth
  /\ verifications = <<>>
  /\ steps = <<>>
  /\ spawned = <<>>
  /\ flags = NoFlags
  /\ exitCode = -1
  /\ prompts = <<>>

\* process.exit(code)
Exit(code) ==
  /\ wpc' = "exited"
  /\ exitCode' = code

\* Step 1: options.ci installs the MCP server only, otherwise the user
\* answers the multiselect prompt (required: true)
ChooseActions ==
  /\ wpc = "select"
  /\ IF ci
     THEN actions' = {"mcp"} /\ prompts' = prompts
     ELSE \E chosen \in (SUBSET Steps) \ {{}} :
            /\ actions' = chosen
            /\ prompts' = Append(prompts, Answer("actions", chosen))
  /\ wpc' = IF needsAuth(actions') THEN "auth" ELSE StepAfter(0, actions', obtainedKey)
  /\ UNCHANGED <<providedKey, keyring, obtainedKey, auth, verifications, steps, spawned,
                 flags, exitCode>>
  /\ UNCHANGED <<avars, ivars>>

\* Step 2 without options.ci: getApiKey(options.apiKey) to its first await
CallGetApiKey ==
  /\ wpc = "auth" /\ auth.fn = "none" /\ ~ci
  /\ auth' = IF Truthy(providedKey)
             THEN Awaiting("getApiKey", "verifyKey", "provided", providedKey)
             ELSE FromStored(keyring)
  /\ steps' = Append(steps, "getApiKey")
  /\ UNCHANGED <<wpc, providedKey, keyring, actions, obtainedKey, verifications, spawned,
                 flags, exitCode, prompts>>
  /\ UNCHANGED <<avars, ivars>>

\* Step 2 with options.ci: getApiKeyCi(options.apiKey) to its await, or to
\* process.exit(1) when there is no key
CallGetApiKeyCi ==
  /\ wpc = "auth" /\ auth.fn = "none" /\ ci
  /\ LET key == IF providedKey # Unset THEN providedKey ELSE readKey(keyring)
     IN  IF ~Truthy(key)
         THEN Exit(1) /\ auth' = auth
         ELSE /\ auth' = Awaiting("getApiKeyCi", "verifyKey", "ci", key)
              /\ UNCHANGED <<wpc, exitCode>>
  /\ steps' = Append(steps, "getApiKeyCi")
  /\ UNCHANGED <<providedKey, keyring, actions, obtainedKey, verifications, spawned, flags,
                 prompts>>
  /\ UNCHANGED <<avars, ivars>>

\* `const result = await verifyKey(key)` resolves
VerifyKeyReturns ==
  /\ wpc = "auth" /\ auth.at = "verifyKey"
  /\ \E o \in FetchOutcomes :
       /\ auth' = [auth EXCEPT !.at = "verified", !.outcome = o, !.result = verifyKey(o)]
       /\ verifications' = Append(verifications,
                                  [source |-> auth.source, key |-> auth.key,
                                   valid |-> verifyKey(o).valid])
  /\ UNCHANGED <<wpc, providedKey, keyring, actions, obtainedKey, steps, spawned,
                 flags, exitCode, prompts>>
  /\ UNCHANGED <<avars, ivars>>

\* the function of auth.ts returns key to runWizard
ReturnKey(key, ring) ==
  /\ obtainedKey' = key
  /\ keyring' = ring
  /\ auth' = NoAuth
  /\ steps' = Append(steps, "authenticated")
  /\ wpc' = StepAfter(0, actions, key)
  /\ exitCode' = exitCode

\* getApiKeyCi and promptForApiKey returning the key whatever verifyKey said
UseVerificationUnchecked ==
  /\ wpc = "auth" /\ auth.at = "verified"
  /\ CASE auth.result.valid \/ auth.source \in {"ci", "pasted"} ->
            ReturnKey(auth.key,
                      IF auth.source = "stored" THEN keyring
                      ELSE storeKey(keyring, auth.key))
       [] ~auth.result.valid /\ auth.source = "provided" ->
            /\ auth' = FromStored(keyring)
            /\ UNCHANGED <<wpc, keyring, obtainedKey, steps, exitCode>>
       [] OTHER ->
            /\ auth' = AwaitingPrompt
            /\ UNCHANGED <<wpc, keyring, obtainedKey, steps, exitCode>>
  /\ UNCHANGED <<providedKey, actions, verifications, spawned, flags, prompts>>
  /\ UNCHANGED <<avars, ivars>>

\* the code after `await verifyKey(key)`: a valid key is stored (not the one
\* read from the store) and returned; an invalid provided key falls through
\* to the stored one, an invalid stored key to the prompt; an invalid key in
\* getApiKeyCi or an invalid pasted key ends the process
UseVerification ==
  /\ wpc = "auth" /\ auth.at = "verified"
  /\ CASE auth.result.valid ->
            ReturnKey(auth.key,
                      IF auth.source = "stored" THEN keyring
                      ELSE storeKey(keyring, auth.key))
       [] ~auth.result.valid /\ auth.source = "provided" ->
            /\ auth' = FromStored(keyring)
            /\ UNCHANGED <<wpc, keyring, obtainedKey, steps, exitCode>>
       [] ~auth.result.valid /\ auth.source = "stored" ->
            /\ auth' = AwaitingPrompt
            /\ UNCHANGED <<wpc, keyring, obtainedKey, steps, exitCode>>
       [] OTHER ->
            /\ Exit(1)
            /\ UNCHANGED <<keyring, obtainedKey, auth, steps>>
  /\ UNCHANGED <<providedKey, actions, verifications, spawned, flags, prompts>>
  /\ UNCHANGED <<avars, ivars>>

\* promptForApiKey: the user answers "Open ... in your browser?"
AnswerConfirm ==
  /\ wpc = "auth" /\ auth.at = "confirm"
  /\ \E shouldOpen \in BOOLEAN :
       prompts' = Append(prompts, Answer("open-browser", shouldOpen))
  /\ auth' = [auth EXCEPT !.at = "password"]
  /\ UNCHANGED <<wpc, providedKey, keyring, actions, obtainedKey, verifications, steps, spawned,
                 flags, exitCode>>
  /\ UNCHANGED <<avars, ivars>>

\* promptForApiKey: the user pastes a key (validate refuses a blank one);
\* the key is trimmed and sent for verification
AnswerPassword ==
  /\ wpc = "auth" /\ auth.at = "password"
  /\ \E pasted \in PastedKeys :
       /\ prompts' = Append(prompts, Answer("api-key", pasted))
       /\ auth' = Awaiting("promptForApiKey", "verifyKey", "pasted", trim(pasted))
  /\ UNCHANGED <<wpc, providedKey, keyring, actions, obtainedKey, verifications, steps, spawned,
                 flags, exitCode>>
  /\ UNCHANGED <<avars, ivars>>

\* abortIfCancelled in runWizard and promptForApiKey: the user cancels the
\* prompt, process.exit(0)
CancelPrompt ==
  /\ \/ wpc = "select" /\ ~ci
     \/ wpc = "auth" /\ auth.at \in {"confirm", "password"}
  /\ prompts' = Append(prompts, Cancelled(CASE wpc = "select" -> "actions"
                                            [] auth.at = "confirm" -> "open-browser"
                                            [] OTHER -> "api-key"))
  /\ Exit(0)
  /\ UNCHANGED <<providedKey, keyring, actions, obtainedKey, auth, verifications, steps,
                 spawned, flags>>
  /\ UNCHANGED <<avars, ivars>>

----------------------------------------------------------------------------
(* installPlugin and installSkill.  A child process is                     *)
(* [bin, args, status, stderr, error]: status "null" when the process was  *)
(* killed or never started, stderr the words of its error output, error    *)
(* the message of result.error ("" when absent).                           *)

SKILL_REPO == "CodeAlive-AI/codealive-skills@codealive-context-engine"
PLUGIN_REPO == "CodeAlive-AI/codealive-skills"

SpawnResult(status, stderr, error) ==
  [status |-> status, stderr |-> stderr, error |-> error]

ClaudeSpawnResults ==
  {SpawnResult("0", <<>>, ""),
   SpawnResult("1", <<"marketplace", "already", "added">>, ""),
   SpawnResult("1", <<"network", "error">>, ""),
   SpawnResult("null", <<>>, "spawnSync /bin/sh ETIMEDOUT")}

NpxSpawnResults ==
  {SpawnResult("0", <<>>, ""),
   SpawnResult("1", <<>>, ""),
   SpawnResult("null", <<>>, "spawnSync /bin/sh ETIMEDOUT")}

\* stderr && stderr.includes(word)
Includes(stderr, word) == \E i \in 1..Len(stderr) : stderr[i] = word

Process(bin, args, r) ==
  [bin |-> bin, args |-> args, status |-> r.status, stderr |-> r.stderr,
   error |-> r.error]

\* the processes execFileSync ran for a binary lookup
Located(log) ==
  [i \in 1..Len(log) |->
     Process(log[i].bin, log[i].args,
             SpawnResult(IF log[i].ok THEN "0" ELSE "1", <<>>, ""))]

MarketplaceAdd(r) ==
  Process("claude", Words(<<"plugin", "marketplace", "add", PLUGIN_REPO>>), r)
PluginInstall(r) ==
  Process("claude", Words(<<"plugin", "install", "codealive@codealive-marketplace">>), r)

\* installPlugin that goes on to plugin install whatever marketplace add did
installPluginUnconditional(cl, plat, addResult, installResult) ==
  LET hasClaudeCli == ClaudeIsClientSupported(NoFs, [cl EXCEPT !.cached = ""], plat)
      located == Located(hasClaudeCli.calls)
      both == located \o <<MarketplaceAdd(addResult), PluginInstall(installResult)>>
  IN  IF ~hasClaudeCli.val THEN [value |-> FALSE, processes |-> located]
      ELSE IF installResult.status # "0"
      THEN [value |-> Includes(installResult.stderr, "already"), processes |-> both]
      ELSE [value |-> TRUE, processes |-> both]

\* installPlugin(): [value, processes] for the results the two commands
\* give when they are run; the ClaudeCodeClient is a new instance
installPlugin(cl, plat, addResult, installResult) ==
  LET hasClaudeCli == ClaudeIsClientSupported(NoFs, [cl EXCEPT !.cached = ""], plat)
      located == Located(hasClaudeCli.calls)
      both == located \o <<MarketplaceAdd(addResult), PluginInstall(installResult)>>
  IN  IF ~hasClaudeCli.val THEN [value |-> FALSE, processes |-> located]
      ELSE IF addResult.status # "0" /\ ~Includes(addResult.stderr, "already")
      THEN [value |-> FALSE, processes |-> located \o <<MarketplaceAdd(addResult)>>]
      ELSE IF installResult.status # "0"
      THEN [value |-> Includes(installResult.stderr, "already"), processes |-> both]
      ELSE [value |-> TRUE, processes |-> both]

\* installSkill(): [success, error, processes]
installSkill(r) ==
  [success |-> r.status = "0",
   error |-> IF r.status = "0" THEN <<>>
             ELSE IF r.error # "" THEN <<r.error>>
             ELSE <<"Exit code ", r.status>>,
   processes |-> <<Process("npx", Words(<<"skills", "add", SKILL_REPO>>), r)>>]

\* Step 3, plugin: installedPlugin = await installPlugin()
InstallPlugin ==
  /\ wpc = "plugin"
  /\ \E addResult \in ClaudeSpawnResults, installResult \in ClaudeSpawnResults :
       LET done == installPlugin(world["Claude Code"].cli, platform, addResult,
                                 installResult)
       IN  /\ flags' = [flags EXCEPT !.plugin = done.value]
           /\ spawned' = done.processes
  /\ steps' = Append(steps, "installPlugin")
  /\ wpc' = StepAfter(1, actions, obtainedKey)
  /\ UNCHANGED <<providedKey, keyring, actions, obtainedKey, auth, verifications, exitCode,
                 prompts>>
  /\ UNCHANGED <<avars, ivars>>

\* runWizard ending the process when the skill cannot be installed
InstallSkillFatal ==
  /\ wpc = "skill"
  /\ \E r \in NpxSpawnResults :
       /\ flags' = [flags EXCEPT !.skill = installSkill(r).success]
       /\ spawned' = installSkill(r).processes
       /\ IF installSkill(r).success
          THEN wpc' = StepAfter(2, actions, obtainedKey) /\ exitCode' = exitCode
          ELSE Exit(1)
  /\ steps' = Append(steps, "installSkill")
  /\ UNCHANGED <<providedKey, keyring, actions, obtainedKey, auth, verifications,
                 prompts>>
  /\ UNCHANGED <<avars, ivars>>

\* Step 3, skill: installSkill()
InstallSkill ==
  /\ wpc = "skill"
  /\ \E r \in NpxSpawnResults :
       /\ flags' = [flags EXCEPT !.skill = installSkill(r).success]
       /\ spawned' = installSkill(r).processes
  /\ steps' = Append(steps, "installSkill")
  /\ wpc' = StepAfter(2, actions, obtainedKey)
  /\ UNCHANGED <<providedKey, keyring, actions, obtainedKey, auth, verifications, exitCode,
                 prompts>>
  /\ UNCHANGED <<avars, ivars>>

\* Step 3, MCP: installMcp(apiKey, { ci: options.ci }) is called
CallInstallMcp ==
  /\ wpc = "mcp" /\ fn = "none"
  /\ fn' = "installMcp"
  /\ ipc' = "detect"
  /\ idx' = 1
  /\ steps' = Append(steps, "installMcp")
  /\ spawned' = <<>>
  /\ UNCHANGED <<world, ci, supportedNames, selectedClients, installed, succeeded,
                 failed, supported, added, ret>>
  /\ UNCHANGED <<wpc, providedKey, keyring, actions, obtainedKey, auth, verifications, flags,
                 exitCode, prompts>>
  /\ UNCHANGED avars

\* runWizard ending the process when installMcp installed to no agent
InstallMcpReturnsFatal ==
  /\ wpc = "mcp" /\ ipc = "returned"
  /\ flags' = [flags EXCEPT !.mcp = Len(ret) > 0]
  /\ IF Len(ret) > 0 THEN wpc' = "outro" /\ exitCode' = exitCode ELSE Exit(1)
  /\ UNCHANGED <<providedKey, keyring, actions, obtainedKey, auth, verifications, steps,
                 spawned, prompts>>
  /\ UNCHANGED <<avars, ivars>>

\* installMcp returns: installedMcp = clients.length > 0
InstallMcpReturns ==
  /\ wpc = "mcp" /\ ipc = "returned"
  /\ flags' = [flags EXCEPT !.mcp = Len(ret) > 0]
  /\ wpc' = "outro"
  /\ UNCHANGED <<providedKey, keyring, actions, obtainedKey, auth, verifications, steps,
                 spawned, exitCode, prompts>>
  /\ UNCHANGED <<avars, ivars>>

\* the message handed to ui.outro
OutroMessage ==
  IF flags.plugin \/ flags.skill \/ flags.mcp THEN "outro: Done!"
  ELSE IF "plugin" \in actions THEN "outro: Follow the plugin instructions above."
  ELSE "outro: No changes made."

\* runWizard from ui.outro to its return
Outro ==
  /\ wpc = "outro"
  /\ steps' = Append(steps, OutroMessage)
  /\ wpc' = "done"
  /\ UNCHANGED <<providedKey, keyring, actions, obtainedKey, auth, verifications, spawned,
                 flags, exitCode, prompts>>
  /\ UNCHANGED <<avars, ivars>>

WizardNext ==
  \/ ChooseActions
  \/ CallGetApiKey
  \/ CallGetApiKeyCi
  \/ VerifyKeyReturns
  \/ UseVerification
  \/ AnswerConfirm
  \/ AnswerPassword
  \/ CancelPrompt
  \/ InstallPlugin
  \/ InstallSkill
  \/ CallInstallMcp
  \/ Detect
  \/ SelectCi
  \/ SelectPrompt
  \/ Cancel
  \/ CheckInstalled
  \/ Confirm
  \/ Install
  \/ ReturnSucceeded
  \/ InstallMcpReturns
  \/ Outro

WizardSpec == WizardInit /\ [][WizardNext]_vars

----------------------------------------------------------------------------
(* Vocabulary of the properties *)

IsJson == client \in JsonClients
AllOk == ExecOutcome(TRUE, TRUE, TRUE)

Finished(op) == pc = "idle" /\ last.op = op /\ last.done

WriteError == "ENOSPC: no space left on device, write"

\* the operation met no I/O fault: full access, and no write failed part-way
NoIoFault == pre.perm = "rw" /\ last.error # WriteError

Prop == getServerPropertyName(client)

\* the value under serverPropertyKey of a text, and its entries
HasProp(text) == text.root = "object" /\ IndexOf(text.props, Prop) # 0
PropValue(text) == text.props[IndexOf(text.props, Prop)][2]
HasServers(text) == HasProp(text) /\ PropValue(text).type = "object"
Servers(text) == PropValue(text).entries
HasCodealive(text) == HasServers(text) /\ IndexOf(Servers(text), MCP_SERVER_NAME) # 0
Codealive(text) == Servers(text)[IndexOf(Servers(text), MCP_SERVER_NAME)][2]

Range(seq) == {seq[i] : i \in 1..Len(seq)}

\* top-level properties other than serverPropertyKey, entries other than codealive
OtherProps(text) == {p \in Range(text.props) : p[1] # Prop}
OtherServers(text) ==
  IF HasServers(text)
  THEN {e \in Range(Servers(text)) : e[1] # MCP_SERVER_NAME}
  ELSE {}

\* what an observer of the config file sees
Seen(f) == <<f.file, IF f.file THEN f.content ELSE EmptyText>>

----------------------------------------------------------------------------
(* C1: for every adapter, an addServer that returned success is followed   *)
(* directly by an isServerInstalled() that returns true (the check's own   *)
(* process invocation, if it makes one, exiting zero).                     *)
C1_AddThenInstalled ==
  (Finished("addServer") /\ last.val)
    => IsServerInstalled(client, fs, cli, platform, AllOk).val

(* C2: a successful addServer of a JSON-config adapter on an existing      *)
(* config changes only [serverPropertyKey, "codealive"]: every other       *)
(* top-level property and every sibling entry is in the written file with  *)
(* an equal value, and nothing but that path is added.                     *)
C2_AddPreservesOthers ==
  (IsJson /\ Finished("addServer") /\ last.val /\ pre.file)
    => /\ OtherProps(fs.content) = OtherProps(pre.content)
       /\ HasCodealive(fs.content)
       /\ OtherServers(fs.content) = OtherServers(pre.content)
       /\ Codealive(fs.content) = getServerConfig(client, last.arg, baseUrl)

C2_Witness ==
  /\ IsJson /\ Finished("addServer") /\ last.val /\ pre.file
  /\ OtherProps(pre.content) # {}
  /\ OtherServers(pre.content) # {}
  /\ fs.content # pre.content

(* C3: removeServer on a JSON config holding the "codealive" entry and     *)
(* unrelated entries, met by no I/O fault, returns success, deletes only   *)
(* the "codealive" entry, keeps every other entry and top-level property   *)
(* equal and in place, and isServerInstalled() is false afterwards.        *)
C3_RemoveOnlyCodealive ==
  (IsJson /\ Finished("removeServer") /\ NoIoFault /\ pre.file
     /\ HasCodealive(pre.content) /\ OtherServers(pre.content) # {})
    => /\ last.val
       /\ ~HasCodealive(fs.content)
       /\ Servers(fs.content)
            = SelectSeq(Servers(pre.content), LAMBDA e : e[1] # MCP_SERVER_NAME)
       /\ OtherProps(fs.content) = OtherProps(pre.content)
       /\ Len(fs.content.props) = Len(pre.content.props)
       /\ ~IsServerInstalled(client, fs, cli, platform, AllOk).val

C3_Witness ==
  /\ IsJson /\ Finished("removeServer") /\ last.val /\ pre.file
  /\ HasCodealive(pre.content)
  /\ Cardinality(OtherServers(pre.content)) = MaxEntries - 1
  /\ OtherProps(pre.content) # {}

(* C4: isClientSupported() and isServerInstalled() of a JSON-config        *)
(* adapter leave the file system as it was, in every file system state;    *)
(* isServerInstalled() on an absent config file returns false and the file *)
(* is still absent.                                                        *)
C4_ChecksAreReadOnly ==
  (IsJson /\ last.op \in {"isClientSupported", "isServerInstalled"})
    => /\ pc = "idle"
       /\ fs = pre
       /\ (last.op = "isServerInstalled" /\ ~pre.file) => (~last.val /\ ~fs.file)

C4_Witness ==
  /\ IsJson /\ Finished("isServerInstalled")
  /\ ~pre.file /\ ~pre.dir /\ pre.parent /\ ~last.val

\* what isServerInstalled() of a JSON-config adapter is to return for a text
\* that was read and from which a document was recovered
EntryPresent(text) ==
  /\ HasProp(text)
  /\ PropValue(text).type \in {"object", "array"}
  /\ HasCodealive(text)

(* C5 as claimed: isServerInstalled() of a JSON-config adapter never       *)
(* raises, returns false when the config file is absent or its content is  *)
(* unparsable (no value, or syntax errors), and otherwise (the file being  *)
(* readable) returns true iff serverPropertyKey maps to a non-null object  *)
(* that has "codealive" as a key.                                          *)
C5_Original ==
  (IsJson /\ Finished("isServerInstalled"))
    => /\ ~last.threw
       /\ IF ~pre.file \/ pre.content.root = "none" \/ pre.content.errs
          THEN ~last.val
          ELSE pre.perm # "none" => (last.val <=> EntryPresent(pre.content))

(* C5 as amended: isServerInstalled() of a JSON-config adapter never       *)
(* raises; it returns false when the config file is absent, cannot be read *)
(* or holds no JSON value (an empty file included); otherwise, syntax      *)
(* errors being tolerated and the recovered document used, it returns true *)
(* iff serverPropertyKey maps to a non-null object that has "codealive" as *)
(* a key.                                                                  *)
C5_InstalledIffEntry ==
  (IsJson /\ Finished("isServerInstalled"))
    => /\ ~last.threw
       /\ IF ~pre.file \/ pre.perm = "none" \/ pre.content.root = "none"
          THEN ~last.val
          ELSE last.val <=> EntryPresent(pre.content)

C5_Witness ==
  /\ IsJson /\ Finished("isServerInstalled")
  /\ pre.file /\ pre.content.errs /\ last.val

(* C6: removeServer on an existing JSON config whose "codealive" key, or   *)
(* whose whole serverPropertyKey object, is absent completes without an    *)
(* error and leaves the document text unchanged (the document being well   *)
(* formed and no I/O fault met).                                           *)
C6_RemoveIdempotent ==
  (IsJson /\ Finished("removeServer") /\ NoIoFault /\ pre.file
     /\ pre.content.root = "object" /\ ~pre.content.errs
     /\ (~HasProp(pre.content)
           \/ (HasServers(pre.content) /\ ~HasCodealive(pre.content))))
    => /\ last.val
       /\ last.error = ""
       /\ fs.content = pre.content

C8_NothingPropagates == ~last.threw

C8_Witness ==
  /\ Finished("addServer") /\ ~last.threw /\ ~last.val
  /\ last.error = "Can not add index to parent of type <type>"

(* C9: the config file is replaced atomically by addServer and             *)
(* removeServer: during the write and after it, failed or not, an observer *)
(* sees the complete old content or the complete new content.              *)
C9_AtomicReplace ==
  (IsJson /\ last.op \in {"addServer", "removeServer"})
    => IF pc = "writing"
       THEN Seen(fs) \in {Seen(pre), <<TRUE, pending.data>>}
       ELSE last.val \/ Seen(fs) = Seen(pre)

\* the environment assignments of an argument list: the argument after each
\* -e / --env flag before the "--" separator
EnvFlags == {<<"-e">>, <<"--env">>}
SeparatorAt(args) == CHOOSE i \in 1..Len(args) : args[i] = <<"--">>
EnvAssignments(args) ==
  {args[i + 1] : i \in {j \in 1..(SeparatorAt(args) - 2) : args[j] \in EnvFlags}}

CarriesEnv(assignments, apiKey, url) ==
  /\ \E a \in assignments : a[1] = "CODEALIVE_API_KEY" /\ a[Len(a)] = apiKey
  /\ Truthy(url) =>
       \E a \in assignments : a[1] = "CODEALIVE_BASE_URL" /\ a[Len(a)] = url
  /\ ~Truthy(url) => \A a \in assignments : a[1] # "CODEALIVE_BASE_URL"

(* C10: the entry written, or the argument list of the add invocation made,*)
(* by addServer carries CODEALIVE_API_KEY with the apiKey argument, and    *)
(* CODEALIVE_BASE_URL with the override when it is set and not at all when *)
(* it is unset or empty.                                                   *)
C10_EnvCarried ==
  /\ (IsJson /\ Finished("addServer") /\ last.val)
       => CarriesEnv(Codealive(fs.content).env, last.arg, baseUrl)
  /\ (~IsJson /\ Finished("addServer") /\ Len(calls) >= 2)
       => /\ CarriesEnv(EnvAssignments(calls[Len(calls)].args), last.arg, baseUrl)
          /\ ~Truthy(baseUrl) =>
               \A i \in 1..Len(calls[Len(calls)].args) :
                 calls[Len(calls)].args[i][1] # "CODEALIVE_BASE_URL"

----------------------------------------------------------------------------
(* Vocabulary of the properties of detection and of the CLI adapters *)

IsCli == client \in CliClients

\* ZedClient.isClientSupported answers false without looking at the disk
RestrictedOutright == client = "Zed" /\ platform \notin {"darwin", "linux"}

\* the adapters whose getConfigPath depends on process.platform
PlatformBranched ==
  {c \in JsonClients :
     \E p, q \in Platforms, e \in [APPDATA : AppDatas, XDG_CONFIG_HOME : XdgConfigHomes] :
       getConfigPath(c, p, e) # getConfigPath(c, q, e)}

\* the binary the last operation resolved, and the calls it made of the
\* locate command and of the agent binary
LastBinary == Resolve(client, preCli, platform).binary
LocateCalls == {i \in 1..Len(calls) : calls[i].bin \in {"which", "where"}}
AgentCalls == (1..Len(calls)) \ LocateCalls
IsSubcommand(call, verb) ==
  /\ Len(call.args) >= 2
  /\ call.args[1] = <<"mcp">>
  /\ call.args[2] = <<verb>>
  /\ verb \in {"add", "remove"} => \E i \in 3..Len(call.args) :
                                       call.args[i] = <<MCP_SERVER_NAME>>

(* C11: isClientSupported() of a JSON-config adapter that is not           *)
(* restricted outright on the platform returns true iff the directory of   *)
(* the config file, or the parent of that directory, exists.               *)
C11_SupportedIffDirOrParent ==
  (IsJson /\ Finished("isClientSupported") /\ ~RestrictedOutright)
    => (last.val <=> (pre.dir \/ pre.parent))

(* C12: on win32 the Zed adapter's isClientSupported() is false in every   *)
(* file system state and for every value of XDG_CONFIG_HOME.               *)
C12_ZedNotOnWin32 ==
  (client = "Zed" /\ platform = "win32")
    => /\ ~IsClientSupported(client, fs, cli, platform).val
       /\ Finished("isClientSupported") => (~last.val /\ ~last.threw)

C12_Witness ==
  /\ client = "Zed" /\ platform = "win32" /\ Finished("isClientSupported")
  /\ pre.dir /\ Truthy(env.XDG_CONFIG_HOME)
  /\ getConfigPath(client, platform, env) = <<"/xdg", "zed", "settings.json">>

(* C13: for every platform-branched JSON-config adapter a platform other   *)
(* than darwin, linux and win32 resolves to the config path of the linux   *)
(* (XDG-style ~/.config) branch.                                           *)
C13_UnknownPlatformIsLinux ==
  (client \in PlatformBranched /\ last.op # "none"
     /\ platform \notin {"darwin", "linux", "win32"})
    => getConfigPath(client, platform, env) = getConfigPath(client, "linux", env)

(* C14: once an instance of a CLI-invocation adapter has resolved its      *)
(* binary to a path, every later resolution on the instance gives that     *)
(* path without a probe or a locate command and leaves the cache alone,    *)
(* whatever happens to the binary meanwhile; nothing is cached before.     *)
C14_Memoized ==
  IsCli =>
    IF resolved # ""
    THEN /\ Resolve(client, cli, platform).binary = resolved
         /\ Resolve(client, cli, platform).calls = <<>>
         /\ Resolve(client, cli, platform).cli = cli
    ELSE cli.cached = ""

(* C15: a CLI-invocation adapter whose binary cannot be resolved answers   *)
(* isClientSupported() with false and addServer with a failure result, and *)
(* addServer runs no subcommand of the agent binary.                       *)
C15_NoBinaryNoInvocation ==
  (IsCli /\ pc = "idle" /\ preCli.bin = "none" /\ preCli.cached = "")
    => /\ last.op = "isClientSupported" => (~last.val /\ ~last.threw)
       /\ last.op = "addServer" =>
            (~last.val /\ ~last.threw /\ last.error # "" /\ AgentCalls = {})

C15_Witness ==
  /\ IsCli /\ Finished("addServer") /\ preCli.bin = "none" /\ preCli.cached = ""
  /\ ~last.val /\ LocateCalls # {}

(* C16: isServerInstalled() of a CLI-invocation adapter never raises; with *)
(* a binary it invokes the list subcommand and returns true iff that exits *)
(* zero with "codealive" in its output; without one it returns false.      *)
C16_InstalledIffListed ==
  (IsCli /\ Finished("isServerInstalled"))
    => /\ ~last.threw
       /\ IF LastBinary = "" THEN ~last.val
          ELSE \E i \in AgentCalls :
                 /\ calls[i].args = Words(<<"mcp", "list">>)
                 /\ last.val <=> (calls[i].ok /\ preCli.registered)

C18_RemoveInvokesRemove ==
  (IsCli /\ Finished("removeServer"))
    => /\ ~last.threw
       /\ IF LastBinary = "" THEN ~last.val
          ELSE \E i \in AgentCalls :
                 /\ AgentCalls = {i}
                 /\ IsSubcommand(calls[i], "remove")
                 /\ last.val <=> calls[i].ok

----------------------------------------------------------------------------
(* Vocabulary of the properties of the registry and the orchestrator *)

SupportedAt(c) == IsClientSupported(c, world[c].fs, world[c].cli, platform).val

\* the server is registered at the site of adapter c
RegisteredAt(c) ==
  IF c \in JsonClients THEN JsonIsServerInstalled(c, world[c].fs, world[c].cli).val
  ELSE world[c].cli.registered

Names(log) == [i \in 1..Len(log) |-> log[i].name]

\* list keeps the order of getAllClients and repeats no client
InRegistryOrder(list) ==
  \A i, j \in 1..Len(list) :
    i < j => IndexOf([k \in 1..Len(getAllClients) |-> <<getAllClients[k]>>], list[i])
               < IndexOf([k \in 1..Len(getAllClients) |-> <<getAllClients[k]>>], list[j])

C20_SequentialInstall ==
  fn = "installMcp" =>
    /\ InRegistryOrder(selectedClients)
    /\ ipc = "install" => Names(added) = SubSeq(selectedClients, 1, idx - 1)
    /\ ipc \in {"detect", "check"} => added = <<>>
    /\ succeeded = Names(SelectSeq(added, LAMBDA a : a.success))
    /\ Names(failed) = Names(SelectSeq(added, LAMBDA a : ~a.success))
    /\ \A i \in 1..Len(added) : added[i].success => RegisteredAt(added[i].name)
    /\ (ipc = "returned" /\ added # <<>>)
         => (Names(added) = selectedClients /\ ret = succeeded)
    /\ (ipc = "returned" /\ added = <<>>) => ret = <<>>

C20_Witness ==
  /\ fn = "installMcp" /\ ipc = "returned"
  /\ \E i, j, k \in 1..Len(added) :
       /\ i < j /\ j < k
       /\ added[i].success /\ ~added[j].success /\ added[k].success
       /\ RegisteredAt(added[i].name)
  /\ Len(ret) < Len(selectedClients)

----------------------------------------------------------------------------
\* the config file as addServer finds it, and the two causes of failure that
\* precede the write
RootNotObject(f) == f.file /\ f.content.root \notin {"object", "none"}
ServersNotObject(f) ==
  f.file /\ HasProp(f.content) /\ PropValue(f.content).type # "object"
ReadFails(f) == f.file /\ f.perm = "none"

(* C30: a JSON adapter's addServer that returns {success: false} because   *)
(* the edit cannot be computed (the root of the config is not an object,   *)
(* or serverPropertyKey maps to a value that is no object) or because      *)
(* reading the config fails performs no write: the file exists exactly     *)
(* when it did before and its content is identical.                        *)
C30_FailedAddWritesNothing ==
  (/\ IsJson
   /\ pc = "idle" /\ last.op = "addServer"
   /\ RootNotObject(pre) \/ ServersNotObject(pre) \/ ReadFails(pre))
  => /\ last.done /\ ~last.threw /\ ~last.val
     /\ last.error # WriteError
     /\ fs.file = pre.file
     /\ fs.content = pre.content

C30_Witness ==
  /\ IsJson
  /\ Finished("addServer")
  /\ ~last.val
  /\ pre.perm = "rw"
  /\ ServersNotObject(pre)
  /\ OtherProps(pre.content) # {}
  /\ fs.content = pre.content

----------------------------------------------------------------------------
\* the answers given to the prompts of installMcp
Answered(prompt) ==
  \E i \in 1..Len(prompts) : prompts[i].prompt = prompt /\ ~prompts[i].cancelled
AnswerTo(prompt) ==
  prompts[CHOOSE i \in 1..Len(prompts) :
            prompts[i].prompt = prompt /\ ~prompts[i].cancelled].value[1]
DeclinedReinstall == Answered("reinstall") /\ ~AnswerTo("reinstall")

(* C29: in an interactive installMcp, addServer is called only on clients  *)
(* the user ticked in the agent prompt; once the user has declined the     *)
(* reinstall offered because some ticked client is already installed,      *)
(* addServer is never called on a client whose isServerInstalled()         *)
(* returned true, and when every ticked client is such a client installMcp *)
(* returns the empty list without any call of addServer.                   *)
C29_OnlySelectedNotInstalled ==
  (fn = "installMcp" /\ ~ci)
  => /\ \A i \in 1..Len(added) :
          Answered("agents") /\ added[i].name \in AnswerTo("agents")
     /\ DeclinedReinstall
        => /\ installed # <<>>
           /\ \A i \in 1..Len(added) : added[i].name \notin Range(installed)
           /\ AnswerTo("agents") \subseteq Range(installed)
              => ipc = "returned" /\ ret = <<>> /\ added = <<>>

C29_Witness ==
  /\ fn = "installMcp" /\ ~ci
  /\ ipc = "returned"
  /\ DeclinedReinstall
  /\ Len(installed) = 1
  /\ Len(added) = 1
  /\ ret = <<added[1].name>>

----------------------------------------------------------------------------
\* the verification whose result is in hand, and what its message says
Verifying == wpc = "auth" /\ auth.at = "verified"
Says(message, piece) == \E i \in 1..Len(message) : message[i] = piece
SaysCount(message, n) ==
  \E i \in 1..(Len(message) - 2) :
    /\ message[i] = ToString(n)
    /\ message[i + 1] = " data source"
    /\ message[i + 2] = IF n = 1 THEN "" ELSE "s"
IsList(body) == body.json /\ body.array

\* the cases of C22 on which its two statements agree
VerifyKeyCommonCases(o, r) ==
  /\ (~o.thrown /\ Ok(o.status) /\ IsList(o.body))
       => /\ r.valid
          /\ r.datasourceCount = <<o.body.length>>
          /\ SaysCount(r.message, o.body.length)
  /\ (~o.thrown /\ o.status = 401)
       => ~r.valid /\ r.message = <<"API key is invalid or expired.">>
  /\ (~o.thrown /\ ~Ok(o.status) /\ o.status # 401)
       => ~r.valid /\ Says(r.message, ToString(o.status))
  /\ (o.thrown /\ o.isError /\ o.name = "TimeoutError")
       => ~r.valid /\ r.message = <<"Connection timed out.">>
  /\ (o.thrown /\ ~(o.isError /\ o.name = "TimeoutError"))
       => ~r.valid /\ r.message[1] = "Cannot connect: "

(* C22 as stated: verifyKey never throws; a 2xx response with a list of n  *)
(* gives valid, datasourceCount n and "n data sources" ("1 data source");  *)
(* a 2xx response with any body that is no list gives valid and            *)
(* datasourceCount 0; 401 gives "invalid or expired"; another non-2xx      *)
(* status gives a message with the status; a timeout-named error gives     *)
(* "timed out"; any other thrown error gives "Cannot connect".             *)
C22_Original ==
  Verifying
  => /\ VerifyKeyCommonCases(auth.outcome, auth.result)
     /\ (~auth.outcome.thrown /\ Ok(auth.outcome.status) /\ ~IsList(auth.outcome.body))
          => auth.result.valid /\ auth.result.datasourceCount = <<0>>

(* C22, amended: as above, but only a 2xx body that is JSON and no list    *)
(* gives valid with datasourceCount 0; a 2xx body that is not JSON makes   *)
(* response.json() throw and gives valid = false with "Cannot connect".    *)
C22_VerifyKeyMapsOutcomes ==
  Verifying
  => /\ VerifyKeyCommonCases(auth.outcome, auth.result)
     /\ (~auth.outcome.thrown /\ Ok(auth.outcome.status)
           /\ auth.outcome.body.json /\ ~auth.outcome.body.array)
          => /\ auth.result.valid
             /\ auth.result.datasourceCount = <<0>>
             /\ SaysCount(auth.result.message, 0)
     /\ (~auth.outcome.thrown /\ Ok(auth.outcome.status) /\ ~auth.outcome.body.json)
          => /\ ~auth.result.valid
             /\ auth.result.datasourceCount = <<>>
             /\ auth.result.message[1] = "Cannot connect: "

C22_Witness ==
  /\ Verifying
  /\ ~auth.outcome.thrown
  /\ auth.outcome.status = 200
  /\ ~auth.outcome.body.json
  /\ ~auth.result.valid
  /\ auth.key = "key-P"

----------------------------------------------------------------------------
\* the authentication call of the run: the keys it found valid, the
\* candidates it tried, and whether it is over
VerifiedKeys == {verifications[i].key : i \in {j \in 1..Len(verifications) :
                                                verifications[j].valid}}
Tried == [i \in 1..Len(verifications) |-> verifications[i].source]
AuthCalled == \E i \in 1..Len(steps) : steps[i] \in {"getApiKey", "getApiKeyCi"}
AuthOver == AuthCalled /\ (wpc # "auth" \/ exitCode # -1)
Interactive == wpc # "off" /\ ~ci
CandidateRank(source) ==
  CASE source = "provided" -> 1 [] source = "stored" -> 2 [] OTHER -> 3

(* C28: a key returned by getApiKey or getApiKeyCi is a key verifyKey      *)
(* found valid during that call, so installMcp and addServer never get an  *)
(* unverified key; a call in which no candidate verified has returned no   *)
(* key and ended the process; getApiKey tries the provided key, then the   *)
(* stored key, then the pasted key, each only after the one before was     *)
(* absent or invalid, and stops at the first valid one (the candidates are *)
(* compared with the store while the call runs: returning stores the key). *)
C28_ReturnedKeyVerified ==
  (wpc # "off")
  => /\ obtainedKey # Unset => obtainedKey \in VerifiedKeys
     /\ \A i \in 1..Len(added) : added[i].key \in VerifiedKeys
     /\ AuthOver
          => \/ obtainedKey # Unset
             \/ wpc = "exited" /\ exitCode # -1 /\ fn = "none"
     /\ (AuthOver /\ VerifiedKeys = {}) => wpc = "exited" /\ obtainedKey = Unset
     /\ \A i \in 1..Len(verifications) :
          /\ i < Len(verifications) => ~verifications[i].valid
          /\ \A j \in 1..(i - 1) : CandidateRank(Tried[j]) < CandidateRank(Tried[i])
     /\ (Interactive /\ wpc = "auth")
          => /\ (Truthy(providedKey) /\ verifications # <<>>)
                  => Tried[1] = "provided" /\ verifications[1].key = providedKey
             /\ \A i \in 1..Len(verifications) :
                  /\ Tried[i] \in {"provided", "stored", "pasted"}
                  /\ Tried[i] = "stored"
                       => /\ verifications[i].key = readKey(keyring)
                          /\ Truthy(providedKey) => i = 2
                  /\ Tried[i] = "pasted"
                       => /\ Truthy(providedKey) => Tried[1] = "provided"
                          /\ Truthy(readKey(keyring)) => Tried[i - 1] = "stored"

C28_Witness ==
  /\ Interactive
  /\ wpc = "done"
  /\ Tried = <<"provided", "stored", "pasted">>
  /\ obtainedKey = "key-P"
  /\ added # <<>>
  /\ added[1].key = "key-P"

----------------------------------------------------------------------------
\* why a process has ended
Exited == exitCode # -1
LastPromptCancelled == prompts # <<>> /\ prompts[Len(prompts)].cancelled
LastVerificationFailed ==
  verifications # <<>> /\ ~verifications[Len(verifications)].valid
\* getApiKeyCi found no key: no --api-key (or an empty one) and, only when
\* the option is not given at all, nothing in CODEALIVE_API_KEY or the store
NoKeyInCi ==
  /\ ci /\ verifications = <<>>
  /\ ~Truthy(providedKey)
  /\ providedKey = Unset => ~Truthy(readKey(keyring))
\* the failures runWizard meets and goes on from
SkillFailed == "skill" \in actions /\ Says(steps, "installSkill") /\ ~flags.skill
PluginFailed == "plugin" \in actions /\ Says(steps, "installPlugin") /\ ~flags.plugin
AdapterFailed == failed # <<>>
EarlierKeyInvalid ==
  \E i \in 1..Len(verifications) :
    ~verifications[i].valid /\ verifications[i].source \in {"provided", "stored"}

\* some action of the wizard or of the installMcp it called can be taken:
\* the guards of the actions of WizardNext
CanStep ==
  \/ wpc \in {"select", "plugin", "skill", "outro"}
  \/ wpc = "auth" /\ (auth.fn = "none"
                       \/ auth.at \in {"verifyKey", "verified", "confirm", "password"})
  \/ wpc = "mcp" /\ (fn = "none" \/ ipc = "returned")
  \/ fn = "installMcp" /\ ipc = "detect"
  \/ fn = "installMcp" /\ ipc \in {"check", "install"}

(* C23 as stated: the process is ended by process.exit only when the user  *)
(* cancels a prompt or when no API key is available in CI mode; an invalid *)
(* key or a failed verification never ends it.                             *)
C23_Original ==
  (wpc # "off" /\ Exited)
  => \/ LastPromptCancelled
     \/ ci /\ verifications = <<>> /\ ~Truthy(providedKey) /\ ~Truthy(readKey(keyring))

(* C23, amended: process.exit is called only (a) with 0 when the user      *)
(* cancels a prompt, (b) with 1 when getApiKeyCi finds no key, (c) with 1  *)
(* when the key of getApiKeyCi or the key pasted in promptForApiKey fails  *)
(* verification.  Every other failure - an invalid provided or stored key  *)
(* in getApiKey, a failed addServer, a failed skill or plugin install -    *)
(* leaves the process running, and a running wizard always has a next      *)
(* step until it has returned from its outro.                              *)
C23_ExitOnlyWhenFatal ==
  (wpc # "off")
  => /\ Exited
          => \/ exitCode = 0 /\ LastPromptCancelled
             \/ exitCode = 1 /\ NoKeyInCi
             \/ /\ exitCode = 1
                /\ LastVerificationFailed
                /\ verifications[Len(verifications)].source \in {"ci", "pasted"}
     /\ ((SkillFailed \/ PluginFailed \/ AdapterFailed \/ EarlierKeyInvalid) /\ Exited)
          => \/ exitCode = 0 /\ LastPromptCancelled
             \/ exitCode = 1 /\ LastVerificationFailed /\ ~AdapterFailed
     /\ (~Exited /\ wpc # "done") => CanStep
     /\ wpc = "done" => /\ ~Exited
                        /\ steps[Len(steps)] = OutroMessage

C23_Witness ==
  /\ wpc = "exited"
  /\ ci
  /\ exitCode = 1
  /\ providedKey = "key-A"
  /\ LastVerificationFailed

----------------------------------------------------------------------------
\* the addServer calls that failed, and whether every call failed
FailedCalls == {i \in 1..Len(added) : ~added[i].success}
AllCallsFailed == added # <<>> /\ FailedCalls = 1..Len(added)

(* C24: once a key is obtained and addServer has failed for some or all of *)
(* the selected clients, installMcp records each failed client with a      *)
(* reason and returns its list of successes (the empty list when every     *)
(* call failed), and runWizard goes on to its outro: nothing is thrown and *)
(* process.exit is not called.                                             *)
C24_AdapterFailureRecovered ==
  (wpc # "off" /\ FailedCalls # {})
  => /\ Truthy(obtainedKey)
     /\ ~Exited
     /\ Len(failed) = Cardinality(FailedCalls)
     /\ \A i \in FailedCalls :
          \E j \in 1..Len(failed) :
            failed[j].name = added[i].name /\ failed[j].error # ""
     /\ wpc # "done" => CanStep
     /\ wpc \in {"outro", "done"}
          => /\ ipc = "returned"
             /\ ret = succeeded
             /\ Len(ret) = Len(added) - Cardinality(FailedCalls)
             /\ AllCallsFailed => ret = <<>> /\ ~flags.mcp
     /\ wpc = "done" => steps[Len(steps)] = OutroMessage

C24_Witness ==
  /\ wpc = "done"
  /\ Len(added) = 2
  /\ AllCallsFailed
  /\ ret = <<>>
  /\ exitCode = -1
  /\ steps[Len(steps)] = "outro: No changes made."

----------------------------------------------------------------------------
\* the install steps runWizard has called, in order, and their selections
InstallCall == [installPlugin |-> "plugin", installSkill |-> "skill",
                installMcp |-> "mcp"]
InstallCalls == {i \in 1..Len(steps) : steps[i] \in DOMAIN InstallCall}
CallRank(step) ==
  CASE step = "installPlugin" -> 1 [] step = "installSkill" -> 2 [] OTHER -> 3
AuthSteps == {i \in 1..Len(steps) : steps[i] \in {"getApiKey", "getApiKeyCi"}}
AuthReturns == {i \in 1..Len(steps) : steps[i] = "authenticated"}

(* C25: runWizard calls the install steps in the order plugin, skill, MCP, *)
(* each at most once and only when it was selected; when it authenticates, *)
(* the authentication has returned before the first install step is        *)
(* called; a wizard that reaches its outro has called every selected step. *)
C25_StepsInOrder ==
  (wpc # "off")
  => /\ \A i, j \in InstallCalls : i < j => CallRank(steps[i]) < CallRank(steps[j])
     /\ \A i \in InstallCalls : InstallCall[steps[i]] \in actions
     /\ \A i \in InstallCalls, a \in AuthSteps :
          a < i /\ \E b \in AuthReturns : a < b /\ b < i
     /\ Cardinality(AuthSteps) <= 1
     /\ wpc \in {"outro", "done"}
          => {InstallCall[steps[i]] : i \in InstallCalls} = actions

C25_Witness ==
  /\ wpc = "done"
  /\ actions = Steps
  /\ Len(steps) = 6
  /\ steps[1] = "getApiKey" /\ steps[2] = "authenticated"
  /\ steps[3] = "installPlugin" /\ steps[4] = "installSkill"
  /\ steps[5] = "installMcp"
  /\ flags = [plugin |-> TRUE, skill |-> FALSE, mcp |-> TRUE]

(* C26: runWizard authenticates for any selection, also for the plugin     *)
(* alone or the skill alone: getApiKey (getApiKeyCi) has been called       *)
(* before any install step is called and before the outro.                 *)
C26_AuthForAnySelection ==
  (wpc # "off")
  => /\ \A i \in InstallCalls : \E a \in AuthSteps : a < i
     /\ wpc \in {"plugin", "skill", "mcp", "outro", "done"} => AuthSteps # {}

(* C21: with options.ci no prompt is shown on any path; runWizard selects  *)
(* the MCP action only and takes the key from getApiKeyCi; installMcp      *)
(* calls addServer, in registry order, on exactly the clients whose        *)
(* isClientSupported() returned true, a client that already has the server *)
(* included, and on no other client.                                       *)
C21_CiInstallsToSupported ==
  (wpc # "off" /\ ci)
  => /\ prompts = <<>>
     /\ wpc # "select" => actions = {"mcp"}
     /\ \A i \in 1..Len(steps) :
          steps[i] \notin {"getApiKey", "installPlugin", "installSkill"}
     /\ auth.fn \in {"none", "getApiKeyCi"}
     /\ installed = <<>>
     /\ fn = "installMcp"
          => /\ AuthSteps # {} /\ obtainedKey \in VerifiedKeys
             /\ ipc # "detect"
                  => /\ supportedNames = {c \in AllClients : SupportedAt(c)}
                     /\ selectedClients = FilterClients(getAllClients, supportedNames)
             /\ Names(added) = SubSeq(FilterClients(getAllClients, supportedNames),
                                      1, Len(added))
             /\ ipc = "returned"
                  => Names(added) = FilterClients(getAllClients, supportedNames)

C21_Witness ==
  /\ wpc = "mcp" /\ ci
  /\ prompts = <<>>
  /\ ipc = "install"
  /\ selectedClients = <<"Claude Code", "Cursor">>
  /\ Names(added) = <<"Claude Code">>
  /\ idx = 2
  /\ world["Cursor"].fs.content = InstalledText("Cursor")

----------------------------------------------------------------------------
\* the plugin step has just run; the commands it ran with the claude binary
PluginStepDone == wpc # "off" /\ steps # <<>> /\ steps[Len(steps)] = "installPlugin"
ClaudeResolvable == world["Claude Code"].cli.bin # "none"
IsMarketplaceAdd(p) == p.bin = "claude" /\ p.args[2] = <<"marketplace">>
IsPluginInstall(p) == p.bin = "claude" /\ p.args[2] = <<"install">>
Passed(p) == p.status = "0" \/ Includes(p.stderr, "already")

\* the part of C27 that follows the resolution of the binary
PluginSequence ==
  /\ \A i \in 1..Len(spawned) :
       IsPluginInstall(spawned[i])
         => /\ i > 1
            /\ IsMarketplaceAdd(spawned[i - 1])
            /\ Passed(spawned[i - 1])
            /\ i = Len(spawned)
  /\ \A i \in 1..Len(spawned) :
       (IsMarketplaceAdd(spawned[i]) /\ ~Passed(spawned[i]))
         => /\ ~flags.plugin
            /\ i = Len(spawned)
  /\ flags.plugin <=> \E i \in 1..Len(spawned) :
                        IsPluginInstall(spawned[i]) /\ Passed(spawned[i])
  /\ ClaudeResolvable
       => \E i \in 1..Len(spawned) : IsMarketplaceAdd(spawned[i])

(* C27 as stated: without a resolvable claude binary installPlugin runs no *)
(* subprocess and returns false; plugin install runs only after            *)
(* marketplace add exited zero or failed with "already" in stderr; a       *)
(* marketplace add failing otherwise returns false without plugin install; *)
(* the function returns true iff plugin install exited zero or failed with *)
(* "already" in stderr.                                                    *)
C27_Original ==
  PluginStepDone
  => /\ ~ClaudeResolvable => spawned = <<>> /\ ~flags.plugin
     /\ PluginSequence

(* C27, amended: without a resolvable claude binary installPlugin runs     *)
(* neither command - the only process is the failed which/where lookup of  *)
(* the binary - and returns false; the rest as stated.                     *)
C27_PluginTwoSteps ==
  PluginStepDone
  => /\ ~ClaudeResolvable
          => /\ ~flags.plugin
             /\ \A i \in 1..Len(spawned) :
                  /\ spawned[i].bin \in {"which", "where"}
                  /\ spawned[i].status # "0"
     /\ PluginSequence

C27_Witness ==
  /\ PluginStepDone
  /\ world["Claude Code"].cli.bin = "path"
  /\ Len(spawned) = 3
  /\ IsMarketplaceAdd(spawned[2]) /\ spawned[2].status = "1"
  /\ IsPluginInstall(spawned[3]) /\ spawned[3].status = "1"
  /\ flags.plugin

====
